---- MODULE Spec2Model ----
(***************************************************************************)
(* A state-machine model of the download engine of tynou/bit_torrent:      *)
(* the Piece Manager (piece_manager.py), the peer session (peer.py) and    *)
(* the download supervisor (client.py).                                    *)
(*                                                                         *)
(* Sizes are scaled down: a block is BLOCK_SIZE bytes, a piece is two      *)
(* blocks, the payload is one full piece plus a one-byte last piece, laid  *)
(* out over three files of which the middle one is empty.  Time is counted *)
(* in ticks of 1/TicksPerSecond s, so that int(time.time()) truncates.     *)
(***************************************************************************)
EXTENDS Integers, Sequences, FiniteSets, TLC

VARIABLES
    have_pieces,       \* PieceManager.have_pieces: piece index -> BOOLEAN
    pending_pieces,    \* PieceManager.pending_pieces: Piece records, in insertion order
    missing_pieces,    \* PieceManager.missing_pieces: list of piece indices
    total_downloaded,  \* PieceManager.total_downloaded
    file_handles,      \* PieceManager.file_handles: [start, end, content] per file
    clock,             \* time.time(), in ticks
    first_arrivals,    \* history: summed len(data) of the blocks that set a block bit
    last,              \* history: the last Piece Manager call and its result
    sessions,          \* PeerConnection objects: is_choking, is_interested,
                       \* pending_requests, and where the session's task stands
    status,            \* Download.status
    start_time,        \* Download.start_time is set
    end_time,          \* Download.end_time is set
    peers,             \* Download.peers: the roster, a list of task ids
    tasks,             \* the _manage_peer tasks created so far: endpoint and position
    supervisor,        \* where the _start_download task stands
    codec,             \* a bencode value or byte string and what encode/decode made of it
    announce,          \* a tracker response and what Tracker.get_peers made of it
    dht                \* DHTClient: the lookup's locals, its batch of queries
                       \* and pending_requests

pmvars == <<have_pieces, pending_pieces, missing_pieces, total_downloaded,
            file_handles, clock, first_arrivals, last>>

clientvars == <<status, start_time, end_time, peers, tasks, supervisor>>

codecvars == <<codec, announce, dht>>

vars == <<have_pieces, pending_pieces, missing_pieces, total_downloaded,
          file_handles, clock, first_arrivals, last, sessions,
          status, start_time, end_time, peers, tasks, supervisor, codec, announce,
          dht>>

(***************************************************************************)
(* Bounds of the model.                                                    *)
(***************************************************************************)
BLOCK_SIZE == 2          \* piece_manager.py:8 is 2**14; scaled down
TicksPerSecond == 2      \* resolution of the clock
REQUEST_TIMEOUT == 1     \* piece_manager.py:9 is 5 (seconds); scaled down
MaxSeconds == 3          \* the clock runs from 1 s to MaxSeconds s
MaxDownloaded == 5       \* block_received is not called past this total_downloaded
MAX_PENDING_REQUESTS == 2  \* peer.py:8 is 20; scaled down
NumSessions == 1         \* peer sessions in the session model
MaxUnrequested == 1      \* piece messages are not delivered once pending_requests is this far below 0
MAX_PEERS == 2           \* client.py:9 is 40; scaled down
NumEndpoints == 2        \* distinct (ip, port) endpoints a tracker can return
MaxListLen == 2          \* length of a tracker's peer list
MaxTasks == 3            \* _manage_peer tasks created in one run
RecursionLimit == 6      \* nested decode_recursive calls before RecursionError; Python allows about 1000 frames
MaxTurns == 6            \* turns of a decode loop before the call counts as not returning
MaxInt == 10             \* largest magnitude of an integer given to encode
MaxLen == 2              \* longest byte string, list and dict given to encode
MaxInputLen == 4         \* every byte string up to this length is given to decode
MaxAnnounces == 2        \* calls of tracker.get_peers in one run of the tracker model
NumRecoverySessions == 2 \* peer sessions in the model of timeout recovery
CONCURRENT_REQUESTS == 2 \* dht.py:207 is 10; scaled down
NumAddresses == 3        \* distinct node addresses (ip, port) that responses can name
NumTids == 2             \* values of a transaction id; os.urandom(2) has 65536
NumDhtPeers == 1         \* distinct peers that get_peers responses can name
MaxTable == 3            \* nodes in the routing table when the lookup starts
MaxNodes == 2            \* nodes in one get_peers response

(***************************************************************************)
(* Helpers: Python's list, bytearray and arithmetic primitives.            *)
(***************************************************************************)
Min(a, b) == IF a <= b THEN a ELSE b

\* math.ceil(a / b) for positive b
CeilDiv(a, b) == (a + b - 1) \div b

\* range(n) as a list: <<0, ..., n-1>>
Range(n) == [k \in 1..n |-> k - 1]

RECURSIVE SumSeq(_)
SumSeq(s) == IF s = <<>> THEN 0 ELSE Head(s) + SumSeq(Tail(s))

\* buf[start : start + len(blk)] = blk on a bytearray (start is 0-based): the
\* slice is cut at the end of buf, so a block that runs past the end extends it.
SliceAssign(buf, start, blk) ==
    SubSeq(buf, 1, start) \o blk \o SubSeq(buf, start + Len(blk) + 1, Len(buf))

\* buf[from : from + n] (0-based, cut at the end of buf)
Slice(buf, from, n) == SubSeq(buf, from + 1, Min(from + n, Len(buf)))

Zeros(n) == [k \in 1..n |-> 0]

\* list.remove(x): drops the first occurrence of x
RECURSIVE remove(_, _)
remove(s, x) ==
    IF s = <<>> THEN <<>>
    ELSE IF Head(s) = x THEN Tail(s)
    ELSE <<Head(s)>> \o remove(Tail(s), x)

\* The orders random.shuffle can leave a list in
RECURSIVE shuffles(_)
shuffles(s) ==
    IF s = <<>> THEN {<<>>}
    ELSE UNION {{<<s[k]>> \o t : t \in shuffles(remove(s, s[k]))} : k \in 1..Len(s)}

\* hashlib.sha1(data).digest(), abstracted to a digest that depends on the length
\* and on the position of every byte
sha1(data) == <<Len(data), SumSeq([k \in 1..Len(data) |-> k * data[k]]) % 7>>

(***************************************************************************)
(* The torrent (torrent.py): a multi-file torrent.                         *)
(***************************************************************************)
files == <<BLOCK_SIZE + 1, 0, BLOCK_SIZE>>
piece_length == 2 * BLOCK_SIZE
total_size == SumSeq(files)
num_pieces == CeilDiv(total_size, piece_length)
Pieces == 0..(num_pieces - 1)

\* The authoritative payload byte at a global offset (bytes are 1 or 2; 0 is the
\* content of a pre-allocated file).
Payload(g) == 1 + (g % 2)

_get_piece_length(piece_index) ==
    IF piece_index = num_pieces - 1
    THEN (IF total_size % piece_length # 0 THEN total_size % piece_length
          ELSE piece_length)
    ELSE piece_length

PieceContent(i) == [k \in 1.._get_piece_length(i) |-> Payload(i * piece_length + k - 1)]

pieces_hashes == [i \in Pieces |-> sha1(PieceContent(i))]

(***************************************************************************)
(* Piece (piece_manager.py:12-62).  Block indices are 0-based as in the    *)
(* source; the lists blocks and requested_blocks are 1-based sequences.    *)
(***************************************************************************)
\* Mutant: a new record starts with every block marked received
NewPiece_received(index, length, hash_value) ==
    [index |-> index,
     length |-> length,
     hash_value |-> hash_value,
     blocks |-> [k \in 1..CeilDiv(length, BLOCK_SIZE) |-> TRUE],
     requested_blocks |-> [k \in 1..CeilDiv(length, BLOCK_SIZE) |-> 0],
     data |-> Zeros(length),
     num_blocks_received |-> 0]

NewPiece(index, length, hash_value) ==
    [index |-> index,
     length |-> length,
     hash_value |-> hash_value,
     blocks |-> [k \in 1..CeilDiv(length, BLOCK_SIZE) |-> FALSE],
     requested_blocks |-> [k \in 1..CeilDiv(length, BLOCK_SIZE) |-> 0],
     data |-> Zeros(length),
     num_blocks_received |-> 0]

\* int(time.time()) at clock value t
int_time(t) == t \div TicksPerSecond

\* time.time() - requested_time > REQUEST_TIMEOUT at clock value t
timeout_elapsed(t, requested_time) ==
    t - requested_time * TicksPerSecond > REQUEST_TIMEOUT * TicksPerSecond

add_block(piece, offset, block_data) ==
    LET block_index == offset \div BLOCK_SIZE
        start == offset % piece.length
    IN IF ~piece.blocks[block_index + 1]
       THEN [piece EXCEPT
               !.blocks[block_index + 1] = TRUE,
               !.requested_blocks[block_index + 1] = 0,
               !.data = SliceAssign(piece.data, start, block_data),
               !.num_blocks_received = @ + 1]
       ELSE piece

mark_block_requested(piece, block_index, t) ==
    [piece EXCEPT !.requested_blocks[block_index + 1] = int_time(t)]

is_block_available(piece, block_index, t) ==
    IF piece.blocks[block_index + 1] THEN FALSE
    ELSE LET requested_time == piece.requested_blocks[block_index + 1]
         IN requested_time = 0 \/ timeout_elapsed(t, requested_time)

\* Mutant: no block is ever reported as timed out
get_timed_out_none(piece, t) == <<>>

\* The list of timed-out block indices, ascending
get_timed_out_blocks(piece, t) ==
    LET TimedOut(block_index) ==
            /\ piece.requested_blocks[block_index + 1] # 0
            /\ ~piece.blocks[block_index + 1]
            /\ timeout_elapsed(t, piece.requested_blocks[block_index + 1])
    IN SelectSeq(Range(Len(piece.requested_blocks)), TimedOut)

is_complete(piece) == \A k \in 1..Len(piece.blocks) : piece.blocks[k]

\* Mutant: the hash check accepts every complete piece
is_hash_valid_always(piece) == TRUE

is_hash_valid(piece) == sha1(piece.data) = piece.hash_value

(***************************************************************************)
(* PieceManager (piece_manager.py:65-216).                                 *)
(***************************************************************************)
\* _setup_files: one stripe per file, pre-allocated (zero-filled) to its length
_setup_files ==
    [f \in 1..Len(files) |->
        [start |-> SumSeq(SubSeq(files, 1, f - 1)),
         end |-> SumSeq(SubSeq(files, 1, f)),
         content |-> Zeros(files[f])]]

\* The position in handles of the first stripe holding global_offset; 0 for None
_get_file_for_offset(handles, global_offset) ==
    LET hits == {f \in 1..Len(handles) :
                    handles[f].start <= global_offset /\ global_offset < handles[f].end}
    IN IF hits = {} THEN 0 ELSE CHOOSE f \in hits : \A g \in hits : f <= g

\* Mutant: every write starts at the beginning of the file
write_pos_zero(piece_offset, file_start) == 0

\* handle.seek(write_pos) for a stripe that starts at file_start
write_pos(piece_offset, file_start) == piece_offset - file_start

\* The while loop of _write_piece_to_disk, from (piece_offset, data_ptr) on
RECURSIVE write_loop(_, _, _, _)
write_loop(handles, piece, piece_offset, data_ptr) ==
    IF ~(data_ptr < piece.length) THEN handles
    ELSE LET f == _get_file_for_offset(handles, piece_offset)
         IN IF f = 0 THEN handles
            ELSE LET to_write == Min(piece.length - data_ptr,
                                     handles[f].end - piece_offset)
                     written == [handles EXCEPT ![f].content =
                                    SliceAssign(@, write_pos(piece_offset, handles[f].start),
                                                Slice(piece.data, data_ptr, to_write))]
                 IN write_loop(written, piece, piece_offset + to_write,
                               data_ptr + to_write)

_write_piece_to_disk(handles, piece) ==
    write_loop(handles, piece, piece.index * piece_length, 0)

\* The keys of a pending_pieces dict, in insertion order
keys(pending) == [k \in 1..Len(pending) |-> pending[k].index]

\* The position of pending[piece_index] in the insertion order; 0 when
\* piece_index is not in pending
pos_of(pending, piece_index) ==
    LET hits == {k \in 1..Len(pending) : pending[k].index = piece_index}
    IN IF hits = {} THEN 0 ELSE CHOOSE k \in hits : TRUE

\* Mutant: the record is not deleted
keep_pending(pending, pos) == pending

\* del pending[piece_index], for the entry at position pos
del_pending(pending, pos) == SubSeq(pending, 1, pos - 1) \o SubSeq(pending, pos + 1, Len(pending))

\* Mutant: the nominal block size is counted instead of len(data)
downloaded_nominal(total, data) == total + BLOCK_SIZE

\* Mutant: at most one block size is counted per block
downloaded_capped(total, data) == total + Min(Len(data), BLOCK_SIZE)

\* del self.pending_pieces[piece_index] after the piece was written to disk
drop_verified(pending, pos) == del_pending(pending, pos)

\* del self.pending_pieces[piece_index] after a hash mismatch
drop_mismatched(pending, pos) == del_pending(pending, pos)

\* total_downloaded += len(data)
downloaded_after(total, data) == total + Len(data)

\* Mutant: the verified piece stays in missing_pieces
missing_kept(missing, piece_index) == missing

\* missing_pieces.remove(piece_index)
missing_after_verify(missing, piece_index) == remove(missing, piece_index)

is_manager_complete == \A i \in Pieces : have_pieces[i]


\* The request tuple (piece_index, offset, length) for a block of a piece
request_for(piece_index, block_index) ==
    <<piece_index, block_index * BLOCK_SIZE,
      Min(BLOCK_SIZE, _get_piece_length(piece_index) - block_index * BLOCK_SIZE)>>

None == <<>>

\* No codec call and no announce is under way
NoCodec == [stage |-> "none", input_value |-> [t |-> "none", v |-> 0], input_data |-> <<>>,
            value |-> [t |-> "none", v |-> 0], data |-> <<>>, err |-> "none"]
NoAnnounce == [stage |-> "none",
               response |-> [kind |-> "none", status |-> 0, body |-> <<>>],
               result |-> [err |-> "none", peers |-> <<>>, interval |-> [t |-> "none", v |-> 0]],
               events |-> <<>>]

NoCall == [op |-> "none", ret |-> None]

\* No DHT lookup is under way
NoLookup == [pc |-> "none", nodes_to_query |-> <<>>, queried_nodes |-> {},
             found_peers |-> {}, tasks |-> <<>>,
             pending_requests |-> [tid \in 1..NumTids |-> 0],
             sent |-> [address \in 1..NumAddresses |-> 0], timed_out |-> FALSE]

\* get_next_request, first loop: the pending pieces in insertion order, from
\* position k on; the first one with a timed-out block gives its first such block
RECURSIVE timeout_scan(_, _, _)
timeout_scan(pending, k, t) ==
    IF k > Len(pending) THEN [found |-> FALSE, pending |-> pending, ret |-> None]
    ELSE LET piece == pending[k]
             timed_out_blocks == get_timed_out_blocks(piece, t)
         IN IF timed_out_blocks # <<>>
            THEN LET block_index == timed_out_blocks[1]
                 IN [found |-> TRUE,
                     pending |-> [pending EXCEPT ![k] = mark_block_requested(piece, block_index, t)],
                     ret |-> request_for(piece.index, block_index)]
            ELSE timeout_scan(pending, k + 1, t)

\* get_next_request, second loop: the missing pieces in shuffled order
RECURSIVE fresh_scan(_, _, _)
fresh_scan(pending, shuffled, t) ==
    IF shuffled = <<>> THEN [pending |-> pending, ret |-> None]
    ELSE LET piece_index == Head(shuffled)
             created == IF pos_of(pending, piece_index) = 0
                        THEN Append(pending, NewPiece(piece_index, _get_piece_length(piece_index),
                                                      pieces_hashes[piece_index]))
                        ELSE pending
             pos == pos_of(created, piece_index)
             piece == created[pos]
             available == {b \in 0..(Len(piece.blocks) - 1) : is_block_available(piece, b, t)}
         IN IF available # {}
            THEN LET block_index == CHOOSE b \in available : \A c \in available : b <= c
                 IN [pending |-> [created EXCEPT ![pos] = mark_block_requested(piece, block_index, t)],
                     ret |-> request_for(piece_index, block_index)]
            ELSE fresh_scan(created, Tail(shuffled), t)

\* get_next_request(peer) on the dict pending at time t, for one outcome of
\* random.shuffle: the new pending_pieces and the returned request
get_next_request(pending, shuffled, t) ==
    LET recovered == timeout_scan(pending, 1, t)
    IN IF recovered.found THEN [pending |-> recovered.pending, ret |-> recovered.ret]
       ELSE fresh_scan(pending, shuffled, t)

\* block_received(piece_index, offset, data): the new manager state and the
\* result ("IndexError": the exception of piece.blocks[block_index])
block_received(piece_index, offset, data) ==
    LET unchanged == [have |-> have_pieces, pending |-> pending_pieces,
                      missing |-> missing_pieces, total |-> total_downloaded,
                      files |-> file_handles, ret |-> "none"]
        pos == pos_of(pending_pieces, piece_index)
    IN IF pos = 0 THEN [unchanged EXCEPT !.ret = "False"]
       ELSE LET piece == pending_pieces[pos]
                block_index == offset \div BLOCK_SIZE
            IN IF block_index >= Len(piece.blocks) THEN [unchanged EXCEPT !.ret = "IndexError"]
               ELSE IF piece.blocks[block_index + 1] THEN [unchanged EXCEPT !.ret = "True"]
               ELSE LET added == add_block(piece, offset, data)
                        total == downloaded_after(total_downloaded, data)
                    IN IF is_complete(added)
                       THEN IF is_hash_valid(added)
                            THEN [have |-> [have_pieces EXCEPT ![piece_index] = TRUE],
                                  pending |-> drop_verified(pending_pieces, pos),
                                  missing |-> missing_after_verify(missing_pieces, piece_index),
                                  total |-> total,
                                  files |-> _write_piece_to_disk(file_handles, added),
                                  ret |-> "True"]
                            ELSE [unchanged EXCEPT !.pending = drop_mismatched(pending_pieces, pos),
                                                   !.total = total, !.ret = "True"]
                       ELSE [unchanged EXCEPT !.pending = [pending_pieces EXCEPT ![pos] = added],
                                              !.total = total, !.ret = "True"]

(***************************************************************************)
(* The calls a peer session can make, and their inputs.                    *)
(***************************************************************************)
\* The piece indices and offsets a piece message can carry: one index past the
\* last piece; the block offsets of a piece, an offset inside a block and the
\* offset one block past a full piece
PieceIndices == 0..num_pieces
Offsets == {0, 1, BLOCK_SIZE, piece_length}
DataLengths == {BLOCK_SIZE - 1, BLOCK_SIZE, BLOCK_SIZE + 1}

\* The payloads a piece message can carry for (piece_index, offset): the
\* authoritative bytes or corrupted ones, in each length
GoodData(piece_index, offset, n) ==
    [k \in 1..n |-> Payload(piece_index * piece_length + offset + k - 1)]
BadData(n) == [k \in 1..n |-> 2]
DataChoices(piece_index, offset) ==
    {GoodData(piece_index, offset, n) : n \in DataLengths}
        \cup {BadData(n) : n \in {BLOCK_SIZE - 1, BLOCK_SIZE}}

\* The block of a pending piece that a piece message addresses has its bit unset
FirstArrival(piece_index, offset) ==
    LET pos == pos_of(pending_pieces, piece_index)
    IN /\ pos # 0
       /\ offset \div BLOCK_SIZE < Len(pending_pieces[pos].blocks)
       /\ ~pending_pieces[pos].blocks[(offset \div BLOCK_SIZE) + 1]

\* PieceManager.__init__; no peer session and no download exist, the manager
\* is driven directly
PMInit ==
    /\ have_pieces = [i \in Pieces |-> FALSE]
    /\ pending_pieces = <<>>
    /\ missing_pieces = Range(num_pieces)
    /\ total_downloaded = 0
    /\ file_handles = _setup_files
    /\ clock = TicksPerSecond
    /\ first_arrivals = 0
    /\ last = NoCall
    /\ sessions = <<>>
    /\ status = "none"
    /\ start_time = FALSE
    /\ end_time = FALSE
    /\ peers = <<>>
    /\ tasks = <<>>
    /\ supervisor = "none"
    /\ codec = NoCodec
    /\ announce = NoAnnounce
    /\ dht = NoLookup

\* A call of piece_manager.get_next_request(peer) whose random.shuffle leaves
\* the order shuffled
GetNextRequestCall(shuffled) ==
    LET r == get_next_request(pending_pieces, shuffled, clock)
    IN /\ pending_pieces' = r.pending
       /\ last' = [op |-> "get_next_request", ret |-> r.ret]
       /\ UNCHANGED <<have_pieces, missing_pieces, total_downloaded, file_handles,
                      clock, first_arrivals>>

\* A call of piece_manager.block_received(piece_index, offset, data)
BlockReceivedCall(piece_index, offset, data) ==
    LET r == block_received(piece_index, offset, data)
    IN /\ total_downloaded + Len(data) <= MaxDownloaded
       /\ have_pieces' = r.have
       /\ pending_pieces' = r.pending
       /\ missing_pieces' = r.missing
       /\ total_downloaded' = r.total
       /\ file_handles' = r.files
       /\ first_arrivals' = first_arrivals +
              (IF FirstArrival(piece_index, offset) THEN Len(data) ELSE 0)
       /\ last' = [op |-> "block_received", ret |-> r.ret]
       /\ UNCHANGED clock

\* Some session calls get_next_request
CallGetNextRequest ==
    /\ \E shuffled \in shuffles(missing_pieces) : GetNextRequestCall(shuffled)
    /\ UNCHANGED <<sessions, clientvars>>
    /\ UNCHANGED codecvars

\* Some session calls block_received with what a piece message carried
CallBlockReceived ==
    /\ \E piece_index \in PieceIndices, offset \in Offsets :
           \E data \in DataChoices(piece_index, offset) :
               BlockReceivedCall(piece_index, offset, data)
    /\ UNCHANGED <<sessions, clientvars>>
    /\ UNCHANGED codecvars

\* Time passes
Tick ==
    /\ clock < MaxSeconds * TicksPerSecond
    /\ clock' = clock + 1
    /\ UNCHANGED <<have_pieces, pending_pieces, missing_pieces, total_downloaded,
                   file_handles, first_arrivals, last, sessions, clientvars>>
    /\ UNCHANGED codecvars

\* Some session calls block_received with a well-formed piece message: a block
\* offset of the piece and a payload of the block's length, authoritative or
\* corrupted
CallBlockReceivedWellFormed ==
    /\ \E piece_index \in Pieces :
           \E block_index \in 0..(CeilDiv(_get_piece_length(piece_index), BLOCK_SIZE) - 1) :
               LET offset == block_index * BLOCK_SIZE
                   n == Min(BLOCK_SIZE, _get_piece_length(piece_index) - offset)
               IN \E data \in {GoodData(piece_index, offset, n), BadData(n)} :
                      BlockReceivedCall(piece_index, offset, data)
    /\ UNCHANGED <<sessions, clientvars>>
    /\ UNCHANGED codecvars

PMNext == CallGetNextRequest \/ CallBlockReceived \/ Tick

SpecPM == PMInit /\ [][PMNext]_vars

PMWellFormedNext == CallGetNextRequest \/ CallBlockReceivedWellFormed \/ Tick

SpecPMWellFormed == PMInit /\ [][PMWellFormedNext]_vars

(***************************************************************************)
(* PeerConnection (peer.py) driven by _manage_peer (client.py:80-92).  A   *)
(* session's task stands at                                                *)
(*   "connect"      awaiting peer.connect() (client.py:81)                 *)
(*   "handshake"    writing the handshake (peer.py:53-54)                  *)
(*   "reply"        awaiting the 68-byte reply (peer.py:57)                *)
(*   "bitfield"     in send_bitfield (peer.py:63)                          *)
(*   "close_handshake"  in close() called by perform_handshake (peer.py:67)*)
(*   "interested"   in send_interested (client.py:87)                      *)
(*   "send_first"   in the _send_requests call of peer.py:116              *)
(*   "read"         waiting for a message (peer.py:120)                    *)
(*   "send"         in a _send_requests call of peer.py:139 or 153         *)
(*   "close_loop"   in close() called by message_loop (peer.py:161, 165)   *)
(*   "returned"     _manage_peer returned                                  *)
(*   "crashed"      an exception left _manage_peer                         *)
(* Each step runs from one await to the next.  The fields reply, sent and  *)
(* used_manager are history: the handshake reply read, the kinds of        *)
(* message written, and whether the Piece Manager was called.  The field   *)
(* requests is the remote side of the connection: the (index, begin) of    *)
(* the request messages written to it that it has not answered with a      *)
(* piece message, in the order written; a peer that chokes drops the       *)
(* requests it holds.                                                      *)
(***************************************************************************)
Sessions == 1..NumSessions

\* Torrent.info_hash, and the infohashes a remote handshake can carry
info_hash == 1
InfoHashes == {info_hash, info_hash + 1}

NoReply == [kind |-> "none", info_hash |-> 0]

\* What reader.readexactly(68) under wait_for can give: 68 bytes carrying an
\* infohash, fewer than 68 bytes and end of stream, a timeout, a reset
HandshakeReplies ==
    {[kind |-> "full", info_hash |-> h] : h \in InfoHashes}
    \cup {[kind |-> k, info_hash |-> 0] : k \in {"short", "timeout", "reset"}}

\* PeerConnection.__init__ over a fresh PieceManager, in a task _manage_peer
\* that has not run yet; the supervisor is not modelled here
SessionsInit ==
    /\ have_pieces = [i \in Pieces |-> FALSE]
    /\ pending_pieces = <<>>
    /\ missing_pieces = Range(num_pieces)
    /\ total_downloaded = 0
    /\ file_handles = _setup_files
    /\ clock = TicksPerSecond
    /\ first_arrivals = 0
    /\ last = NoCall
    /\ sessions = [s \in Sessions |->
                      [is_choking |-> TRUE, is_interested |-> FALSE,
                       pending_requests |-> 0, pc |-> "connect",
                       writer |-> "None", reply |-> NoReply,
                       sent |-> {}, used_manager |-> FALSE, requests |-> <<>>]]
    /\ status = "none"
    /\ start_time = FALSE
    /\ end_time = FALSE
    /\ peers = <<>>
    /\ tasks = <<>>
    /\ supervisor = "none"
    /\ codec = NoCodec
    /\ announce = NoAnnounce
    /\ dht = NoLookup

\* peer.connect() returns True with the writer set, or False
connect(s, ok) ==
    /\ sessions[s].pc = "connect"
    /\ sessions' = IF ok
                   THEN [sessions EXCEPT ![s].writer = "open", ![s].pc = "handshake"]
                   ELSE [sessions EXCEPT ![s].pc = "returned"]
    /\ UNCHANGED <<pmvars, clientvars>>
    /\ UNCHANGED codecvars

\* perform_handshake writes the handshake; a failing drain is outside the try
handshake_written(s, ok) ==
    /\ sessions[s].pc = "handshake"
    /\ sessions' = [sessions EXCEPT ![s].sent = @ \cup {"handshake"},
                                    ![s].pc = IF ok THEN "reply" ELSE "crashed"]
    /\ UNCHANGED <<pmvars, clientvars>>
    /\ UNCHANGED codecvars

\* Mutant: the infohash of the reply is not compared
info_hash_unchecked(h) == TRUE

\* if info_hash != self.info_hash: raise ValueError
info_hash_matches(h) == h = info_hash

\* The exceptions perform_handshake catches: asyncio.TimeoutError,
\* ConnectionResetError, ValueError; IncompleteReadError is none of them
handshake_catches(reply) == reply.kind \in {"timeout", "reset", "full"}

\* perform_handshake reads the reply: a matching one goes on to send_bitfield,
\* a caught failure calls close(), any other exception leaves the task
handshake_reply(s, reply) ==
    /\ sessions[s].pc = "reply"
    /\ sessions' =
         IF reply.kind = "full" /\ info_hash_matches(reply.info_hash)
         THEN [sessions EXCEPT ![s].reply = reply, ![s].pc = "bitfield"]
         ELSE IF handshake_catches(reply)
         THEN [sessions EXCEPT ![s].reply = reply, ![s].writer = "closed",
                               ![s].pc = "close_handshake"]
         ELSE [sessions EXCEPT ![s].reply = reply, ![s].pc = "crashed"]
    /\ UNCHANGED <<pmvars, clientvars>>
    /\ UNCHANGED codecvars

\* send_bitfield returns, perform_handshake returns True and _manage_peer
\* appends the session to download.peers
send_bitfield(s) ==
    /\ sessions[s].pc = "bitfield"
    /\ sessions' = [sessions EXCEPT ![s].sent = @ \cup {"bitfield"}, ![s].pc = "interested"]
    /\ peers' = Append(peers, s)
    /\ UNCHANGED <<pmvars, status, start_time, end_time, tasks, supervisor>>
    /\ UNCHANGED codecvars

\* send_bitfield raises: a ConnectionResetError is caught and close() is
\* called, any other exception leaves the task
send_bitfield_raises(s, caught) ==
    /\ sessions[s].pc = "bitfield"
    /\ sessions' = IF caught
                   THEN [sessions EXCEPT ![s].sent = @ \cup {"bitfield"},
                                         ![s].writer = "closed",
                                         ![s].pc = "close_handshake"]
                   ELSE [sessions EXCEPT ![s].sent = @ \cup {"bitfield"},
                                         ![s].pc = "crashed"]
    /\ UNCHANGED <<pmvars, clientvars>>
    /\ UNCHANGED codecvars

\* close() called by perform_handshake: wait_closed returns, perform_handshake
\* returns False and _manage_peer returns; or wait_closed raises
handshake_close(s, ok) ==
    /\ sessions[s].pc = "close_handshake"
    /\ sessions' = [sessions EXCEPT ![s].pc = IF ok THEN "returned" ELSE "crashed"]
    /\ UNCHANGED <<pmvars, clientvars>>
    /\ UNCHANGED codecvars

\* send_interested: the message is written, then is_interested is set
send_interested(s) ==
    /\ sessions[s].pc = "interested"
    /\ sessions' = [sessions EXCEPT ![s].is_interested = TRUE,
                                    ![s].sent = @ \cup {"interested"},
                                    ![s].pc = "send_first"]
    /\ UNCHANGED <<pmvars, clientvars>>
    /\ UNCHANGED codecvars

\* send_interested: writer.drain() raises; nothing in _manage_peer catches it
send_interested_raises(s) ==
    /\ sessions[s].pc = "interested"
    /\ sessions' = [sessions EXCEPT ![s].sent = @ \cup {"interested"}, ![s].pc = "crashed"]
    /\ UNCHANGED <<pmvars, clientvars>>
    /\ UNCHANGED codecvars

\* The counter after a request was sent: self.pending_requests += 1
requests_after_send(pending_requests) == pending_requests + 1

\* The counter after a piece message: self.pending_requests -= 1
requests_after_piece(pending_requests) == pending_requests - 1

\* The counter after a choke message: self.pending_requests = 0
requests_after_choke(pending_requests) == 0

\* Mutant: the loop of _send_requests does not look at is_choking
pipeline_open_choked(session) == session.pending_requests < MAX_PENDING_REQUESTS

\* while not self.is_choking and self.pending_requests < MAX_PENDING_REQUESTS
pipeline_open(session) ==
    ~session.is_choking /\ session.pending_requests < MAX_PENDING_REQUESTS

\* One iteration of the while loop of _send_requests, up to the await of
\* request_piece; the loop ends when the peer chokes, the pipeline is full or
\* get_next_request returns None
_send_requests(s) ==
    /\ sessions[s].pc \in {"send_first", "send"}
    /\ IF pipeline_open(sessions[s])
       THEN \E shuffled \in shuffles(missing_pieces) :
               /\ GetNextRequestCall(shuffled)
               /\ sessions' =
                    IF get_next_request(pending_pieces, shuffled, clock).ret = None
                    THEN [sessions EXCEPT ![s].used_manager = TRUE, ![s].pc = "read"]
                    ELSE LET request == get_next_request(pending_pieces, shuffled, clock).ret
                         IN [sessions EXCEPT ![s].used_manager = TRUE,
                                             ![s].sent = @ \cup {"request"},
                                             ![s].requests = Append(@, <<request[1], request[2]>>),
                                             ![s].pending_requests = requests_after_send(@)]
       ELSE /\ sessions' = [sessions EXCEPT ![s].pc = "read"]
            /\ UNCHANGED pmvars
    /\ UNCHANGED clientvars
    /\ UNCHANGED codecvars

\* request_piece raises inside _send_requests: the block was handed out, the
\* counter is not incremented; the call of peer.py:116 is outside the try, the
\* calls of peer.py:139 and 153 are inside and reach close()
request_piece_raises(s) ==
    /\ sessions[s].pc \in {"send_first", "send"}
    /\ pipeline_open(sessions[s])
    /\ \E shuffled \in shuffles(missing_pieces) :
           /\ get_next_request(pending_pieces, shuffled, clock).ret # None
           /\ GetNextRequestCall(shuffled)
    /\ sessions' =
         IF sessions[s].pc = "send_first"
         THEN [sessions EXCEPT ![s].used_manager = TRUE, ![s].sent = @ \cup {"request"},
                               ![s].pc = "crashed"]
         ELSE [sessions EXCEPT ![s].used_manager = TRUE, ![s].sent = @ \cup {"request"},
                               ![s].writer = "closed", ![s].pc = "close_loop"]
    /\ UNCHANGED clientvars
    /\ UNCHANGED codecvars

\* message_loop reads a keep-alive, a bitfield or a message it ignores
other_message(s) ==
    /\ sessions[s].pc = "read"
    /\ UNCHANGED vars

\* message_loop reads choke (id 0)
choke(s) ==
    /\ sessions[s].pc = "read"
    /\ sessions' = [sessions EXCEPT ![s].is_choking = TRUE,
                                    ![s].requests = <<>>,
                                    ![s].pending_requests = requests_after_choke(@)]
    /\ UNCHANGED <<pmvars, clientvars>>
    /\ UNCHANGED codecvars

\* message_loop reads unchoke (id 1)
unchoke(s) ==
    /\ sessions[s].pc = "read"
    /\ sessions' = [sessions EXCEPT ![s].is_choking = FALSE, ![s].pc = "send"]
    /\ UNCHANGED <<pmvars, clientvars>>
    /\ UNCHANGED codecvars

\* The piece messages a remote peer sends: a block of a piece with authoritative
\* or corrupted bytes, or an offset one block past a full piece; requested or not
PieceMessages ==
    {<<i, b * BLOCK_SIZE, data>> :
        i \in Pieces, b \in 0..(CeilDiv(piece_length, BLOCK_SIZE) - 1),
        data \in {GoodData(0, 0, BLOCK_SIZE), BadData(BLOCK_SIZE), BadData(BLOCK_SIZE - 1)}}
    \cup {<<i, piece_length, BadData(BLOCK_SIZE)>> : i \in Pieces}

\* The requests a remote side holds after it sent the piece message for one
answered(requests, request) ==
    IF \E k \in 1..Len(requests) : requests[k] = request
    THEN remove(requests, request)
    ELSE requests

\* message_loop reads piece (id 7): the counter is decremented, the block is
\* handed to the Piece Manager, and the pipeline is refilled; an exception of
\* block_received reaches close()
piece_message(s, index, begin, block_data) ==
    /\ sessions[s].pc = "read"
    /\ sessions[s].pending_requests > -MaxUnrequested
    /\ BlockReceivedCall(index, begin, block_data)
    /\ sessions' =
         IF block_received(index, begin, block_data).ret = "IndexError"
         THEN [sessions EXCEPT ![s].used_manager = TRUE,
                               ![s].requests = answered(@, <<index, begin>>),
                               ![s].pending_requests = requests_after_piece(@),
                               ![s].writer = "closed", ![s].pc = "close_loop"]
         ELSE [sessions EXCEPT ![s].used_manager = TRUE,
                               ![s].requests = answered(@, <<index, begin>>),
                               ![s].pending_requests = requests_after_piece(@),
                               ![s].pc = "send"]
    /\ UNCHANGED clientvars
    /\ UNCHANGED codecvars

\* message_loop: the read times out, is reset or ends, or the message cannot
\* be decoded; close() is called
read_fails(s) ==
    /\ sessions[s].pc = "read"
    /\ sessions' = [sessions EXCEPT ![s].writer = "closed", ![s].pc = "close_loop"]
    /\ UNCHANGED <<pmvars, clientvars>>
    /\ UNCHANGED codecvars

\* if peer in download.peers: download.peers.remove(peer)
roster_without(roster, s) ==
    IF \E j \in 1..Len(roster) : roster[j] = s THEN remove(roster, s) ELSE roster

\* close() called by message_loop returns: break, message_loop returns and
\* _manage_peer removes the session from download.peers
message_loop_close(s) ==
    /\ sessions[s].pc = "close_loop"
    /\ sessions' = [sessions EXCEPT ![s].pc = "returned"]
    /\ peers' = roster_without(peers, s)
    /\ UNCHANGED <<pmvars, status, start_time, end_time, tasks, supervisor>>
    /\ UNCHANGED codecvars

\* close() called by message_loop raises inside the except clause: the
\* exception leaves message_loop and _manage_peer
message_loop_close_raises(s) ==
    /\ sessions[s].pc = "close_loop"
    /\ sessions' = [sessions EXCEPT ![s].pc = "crashed"]
    /\ UNCHANGED <<pmvars, clientvars>>
    /\ UNCHANGED codecvars

PeerNext ==
    \/ \E s \in Sessions :
          \/ \E ok \in BOOLEAN : connect(s, ok)
          \/ \E ok \in BOOLEAN : handshake_written(s, ok)
          \/ \E reply \in HandshakeReplies : handshake_reply(s, reply)
          \/ send_bitfield(s)
          \/ \E caught \in BOOLEAN : send_bitfield_raises(s, caught)
          \/ \E ok \in BOOLEAN : handshake_close(s, ok)
          \/ send_interested(s)
          \/ send_interested_raises(s)
          \/ _send_requests(s)
          \/ request_piece_raises(s)
          \/ other_message(s)
          \/ choke(s)
          \/ unchoke(s)
          \/ \E m \in PieceMessages : piece_message(s, m[1], m[2], m[3])
          \/ read_fails(s)
          \/ message_loop_close(s)
          \/ message_loop_close_raises(s)
    \/ Tick

SpecPeer == SessionsInit /\ [][PeerNext]_vars

(***************************************************************************)
(* Timeout recovery across sessions.  The sessions have connected and      *)
(* completed the handshake, their first _send_requests found them choked,  *)
(* and they wait in message_loop.  Each remote side unchokes once and      *)
(* never chokes.  Session 1 is a peer that may be lost at any time: its    *)
(* remote side sends no piece message, and its read may fail, which closes *)
(* it.  Every other session stays connected, and its remote side answers a *)
(* request it holds with the authoritative bytes.                          *)
(***************************************************************************)
RecoverySessions == 1..NumRecoverySessions

Answering == RecoverySessions \ {1}

RecoveryInit ==
    /\ have_pieces = [i \in Pieces |-> FALSE]
    /\ pending_pieces = <<>>
    /\ missing_pieces = Range(num_pieces)
    /\ total_downloaded = 0
    /\ file_handles = _setup_files
    /\ clock = TicksPerSecond
    /\ first_arrivals = 0
    /\ last = NoCall
    /\ sessions = [s \in RecoverySessions |->
                      [is_choking |-> TRUE, is_interested |-> TRUE,
                       pending_requests |-> 0, pc |-> "read",
                       writer |-> "open",
                       reply |-> [kind |-> "full", info_hash |-> info_hash],
                       sent |-> {"handshake", "bitfield", "interested"},
                       used_manager |-> FALSE, requests |-> <<>>]]
    /\ status = "none"
    /\ start_time = FALSE
    /\ end_time = FALSE
    /\ peers = [s \in RecoverySessions |-> s]
    /\ tasks = <<>>
    /\ supervisor = "none"
    /\ codec = NoCodec
    /\ announce = NoAnnounce
    /\ dht = NoLookup

\* The remote side unchokes a session it is choking
unchoked_once(s) == sessions[s].is_choking /\ unchoke(s)

\* The remote side answers a request it holds: a piece message with the
\* requested block of the payload
answers(s) ==
    \E k \in 1..Len(sessions[s].requests) :
        LET request == sessions[s].requests[k]
        IN piece_message(s, request[1], request[2],
                         GoodData(request[1], request[2],
                                  Min(BLOCK_SIZE, _get_piece_length(request[1]) - request[2])))

\* The session is lost: its read fails and message_loop closes it
lost(s) == read_fails(s) \/ message_loop_close(s)

RecoveryNext ==
    \/ \E s \in RecoverySessions :
          \/ unchoked_once(s)
          \/ _send_requests(s)
    \/ \E s \in Answering : answers(s)
    \/ lost(1)
    \/ Tick

\* The remote sides unchoke, a closing session ends, and time passes; when a
\* remote side answers and when a session's _send_requests goes on is left open
SpecRecovery ==
    /\ RecoveryInit
    /\ [][RecoveryNext]_vars
    /\ \A s \in RecoverySessions : WF_vars(unchoked_once(s))
    /\ WF_vars(message_loop_close(1))
    /\ WF_vars(Tick)

(***************************************************************************)
(* TorrentClient (client.py): the supervisor task _start_download and the  *)
(* _manage_peer tasks it creates.  The supervisor stands at                *)
(*   "created"   the task exists, _start_download has not run yet          *)
(*   "announce"  awaiting tracker.get_peers (client.py:46)                 *)
(*   "sleep"     awaiting asyncio.sleep (client.py:72)                     *)
(*   "done"      _start_download returned                                  *)
(*   "crashed"   an exception left _start_download                         *)
(* and a _manage_peer task at "connect", "handshake", "interested", "loop",*)
(* "returned" or "crashed".  A step runs from one await to the next; the   *)
(* for loop of client.py:54-70 has no await and is one step.               *)
(***************************************************************************)
Endpoints == 1..NumEndpoints

\* The peer lists tracker.get_peers can return, duplicates included; the empty
\* list is also what it returns for an announce that failed
RECURSIVE PeerLists(_)
PeerLists(n) ==
    IF n = 0 THEN {<<>>}
    ELSE PeerLists(n - 1) \cup
         {Append(l, e) : l \in {x \in PeerLists(n - 1) : Len(x) = n - 1}, e \in Endpoints}

\* add_torrent: the Download is created with status STARTING, start_time is
\* set and the supervisor task is created
ClientInit ==
    /\ have_pieces = [i \in Pieces |-> FALSE]
    /\ pending_pieces = <<>>
    /\ missing_pieces = Range(num_pieces)
    /\ total_downloaded = 0
    /\ file_handles = _setup_files
    /\ clock = TicksPerSecond
    /\ first_arrivals = 0
    /\ last = NoCall
    /\ sessions = <<>>
    /\ status = "STARTING"
    /\ start_time = TRUE
    /\ end_time = FALSE
    /\ peers = <<>>
    /\ tasks = <<>>
    /\ supervisor = "created"
    /\ codec = NoCodec
    /\ announce = NoAnnounce
    /\ dht = NoLookup

\* [f"{p.ip}:{p.port}" for p in download.peers]
roster_endpoints == {tasks[peers[k]].endpoint : k \in 1..Len(peers)}

\* The tasks the for loop of _start_download creates for a peer list: an endpoint
\* of the roster is skipped, the loop breaks when the roster is full
RECURSIVE spawn(_)
spawn(peers_list) ==
    IF peers_list = <<>> THEN <<>>
    ELSE IF Head(peers_list) \in roster_endpoints THEN spawn(Tail(peers_list))
    ELSE IF Len(peers) >= MAX_PEERS THEN <<>>
    ELSE <<[endpoint |-> Head(peers_list), pc |-> "connect"]>> \o spawn(Tail(peers_list))

\* Mutant: the loop ends without asking the Piece Manager
loop_head_unasked ==
    /\ end_time' = TRUE
    /\ status' = "SEEDING"
    /\ supervisor' = "done"

\* The head of the while loop of _start_download and what follows the loop
loop_head ==
    IF is_manager_complete
    THEN /\ end_time' = TRUE
         /\ status' = "SEEDING"
         /\ supervisor' = "done"
    ELSE /\ supervisor' = "announce"
         /\ UNCHANGED <<end_time, status>>

\* _start_download starts: status DOWNLOADING, then the loop head
start_download ==
    /\ supervisor = "created"
    /\ codec = NoCodec
    /\ announce = NoAnnounce
    /\ dht = NoLookup
    /\ IF is_manager_complete
       THEN /\ end_time' = TRUE
            /\ status' = "SEEDING"
            /\ supervisor' = "done"
       ELSE /\ status' = "DOWNLOADING"
            /\ supervisor' = "announce"
            /\ UNCHANGED end_time
    /\ UNCHANGED <<start_time, peers, tasks, pmvars, sessions>>
    /\ UNCHANGED codecvars

\* tracker.get_peers returns: the for loop creates the tasks
get_peers_returns(peers_list) ==
    /\ supervisor = "announce"
    /\ Len(tasks) + Len(spawn(peers_list)) <= MaxTasks
    /\ tasks' = tasks \o spawn(peers_list)
    /\ supervisor' = "sleep"
    /\ UNCHANGED <<status, start_time, end_time, peers, pmvars, sessions>>
    /\ UNCHANGED codecvars

\* tracker.get_peers raises (a body bencode cannot decode): nothing catches it
get_peers_raises ==
    /\ supervisor = "announce"
    /\ supervisor' = "crashed"
    /\ UNCHANGED <<status, start_time, end_time, peers, tasks, pmvars, sessions>>
    /\ UNCHANGED codecvars

\* asyncio.sleep(tracker_interval) returns: back to the loop head
sleep_returns ==
    /\ supervisor = "sleep"
    /\ loop_head
    /\ UNCHANGED <<start_time, peers, tasks, pmvars, sessions>>
    /\ UNCHANGED codecvars

task_at(k, pc) == k \in 1..Len(tasks) /\ tasks[k].pc = pc

task_goes(k, pc) == tasks' = [tasks EXCEPT ![k].pc = pc]

\* peer.connect() returns True / False
connect_returns(k, ok) ==
    /\ task_at(k, "connect")
    /\ task_goes(k, IF ok THEN "handshake" ELSE "returned")
    /\ UNCHANGED <<status, start_time, end_time, peers, supervisor, pmvars, sessions>>
    /\ UNCHANGED codecvars

\* peer.perform_handshake() returns True, and the session joins the roster, or
\* returns False
perform_handshake_returns(k, ok) ==
    /\ task_at(k, "handshake")
    /\ task_goes(k, IF ok THEN "interested" ELSE "returned")
    /\ peers' = IF ok THEN Append(peers, k) ELSE peers
    /\ UNCHANGED <<status, start_time, end_time, supervisor, pmvars, sessions>>
    /\ UNCHANGED codecvars

\* peer.perform_handshake() raises an exception it does not catch
perform_handshake_raises(k) ==
    /\ task_at(k, "handshake")
    /\ task_goes(k, "crashed")
    /\ UNCHANGED <<status, start_time, end_time, peers, supervisor, pmvars, sessions>>
    /\ UNCHANGED codecvars

\* peer.send_interested() returns, or raises and ends the task with the
\* session left in the roster
send_interested_returns(k, ok) ==
    /\ task_at(k, "interested")
    /\ task_goes(k, IF ok THEN "loop" ELSE "crashed")
    /\ UNCHANGED <<status, start_time, end_time, peers, supervisor, pmvars, sessions>>
    /\ UNCHANGED codecvars

\* A session in message_loop refills its pipeline and a block is handed out
loop_requests(k) ==
    /\ task_at(k, "loop")
    /\ \E shuffled \in shuffles(missing_pieces) :
          /\ get_next_request(pending_pieces, shuffled, clock).ret # None
          /\ GetNextRequestCall(shuffled)
    /\ UNCHANGED <<clientvars, sessions>>
    /\ UNCHANGED codecvars

\* A session in message_loop receives a block that was requested and is not
\* yet received, with authoritative bytes: the remote peers of this model
\* answer requests and send nothing else
loop_receives(k) ==
    /\ task_at(k, "loop")
    /\ \E j \in 1..Len(pending_pieces) :
          \E b \in 1..Len(pending_pieces[j].blocks) :
              LET piece_index == pending_pieces[j].index
                  offset == (b - 1) * BLOCK_SIZE
                  n == Min(BLOCK_SIZE, _get_piece_length(piece_index) - offset)
              IN /\ pending_pieces[j].requested_blocks[b] # 0
                 /\ ~pending_pieces[j].blocks[b]
                 /\ BlockReceivedCall(piece_index, offset, GoodData(piece_index, offset, n))
    /\ UNCHANGED <<clientvars, sessions>>
    /\ UNCHANGED codecvars

\* peer in download.peers
InRoster(k) == \E j \in 1..Len(peers) : peers[j] = k

\* peer.message_loop() returns: the session is removed from the roster
message_loop_returns(k) ==
    /\ task_at(k, "loop")
    /\ task_goes(k, "returned")
    /\ peers' = IF InRoster(k) THEN remove(peers, k) ELSE peers
    /\ UNCHANGED <<status, start_time, end_time, supervisor, pmvars, sessions>>
    /\ UNCHANGED codecvars

\* peer.message_loop() raises (peer.py:116 is outside the try): the task ends
\* with the session left in the roster
message_loop_raises(k) ==
    /\ task_at(k, "loop")
    /\ task_goes(k, "crashed")
    /\ UNCHANGED <<status, start_time, end_time, peers, supervisor, pmvars, sessions>>
    /\ UNCHANGED codecvars

ClientNext ==
    \/ start_download
    \/ \E peers_list \in PeerLists(MaxListLen) : get_peers_returns(peers_list)
    \/ get_peers_raises
    \/ sleep_returns
    \/ \E k \in 1..MaxTasks :
          \/ \E ok \in BOOLEAN : connect_returns(k, ok)
          \/ \E ok \in BOOLEAN : perform_handshake_returns(k, ok)
          \/ perform_handshake_raises(k)
          \/ \E ok \in BOOLEAN : send_interested_returns(k, ok)
          \/ loop_requests(k)
          \/ loop_receives(k)
          \/ message_loop_returns(k)
          \/ message_loop_raises(k)

SpecClient == ClientInit /\ [][ClientNext]_vars

\* The await of tracker.get_peers ends: the HTTP request has a 10 s timeout
\* (tracker.py:42), so the call returns or raises
get_peers_ends ==
    \/ \E peers_list \in PeerLists(MaxListLen) : get_peers_returns(peers_list)
    \/ get_peers_raises

\* The event loop runs the supervisor task when it is created, ends its await
\* of get_peers and wakes it from asyncio.sleep; nothing is assumed about the
\* remote peers
SpecClientFair ==
    /\ ClientInit
    /\ [][ClientNext]_vars
    /\ WF_vars(start_download)
    /\ WF_vars(get_peers_ends)
    /\ WF_vars(sleep_returns)

(***************************************************************************)
(* Bencoding (bencode.py).  A byte string is a sequence of one-character   *)
(* strings.  A Python value is a record with a tag t and a payload v: an   *)
(* int, a bytes object, a list of values, or a dict, kept as the sequence  *)
(* of its (key, value) pairs in insertion order.                           *)
(***************************************************************************)
\* The bytes the model uses, in ascending byte order
ByteOrder == <<" ", "+", "-", "0", "1", "2", "3", "4", "5", "6", "7", "8", "9",
               ":", "_", "a", "b", "c", "d", "e", "g", "i", "l", "m", "n", "o", "p", "r", "s",
               "t", "v", "w">>

ord(c) == CHOOSE k \in 1..Len(ByteOrder) : ByteOrder[k] = c

\* bytes.isdigit() of one byte
isdigit(c) == c \in {"0", "1", "2", "3", "4", "5", "6", "7", "8", "9"}

digit_value(c) == ord(c) - ord("0")

Max(a, b) == IF a > b THEN a ELSE b

\* Python slicing data[lo:hi] of a sequence, negative indices included
slice_index(n, k) == IF k < 0 THEN Max(k + n, 0) ELSE Min(k, n)

PySlice(data, lo, hi) ==
    LET from == slice_index(Len(data), lo)
        to == slice_index(Len(data), hi)
    IN IF from >= to THEN <<>> ELSE SubSeq(data, from + 1, to)

\* data[lo:]
PyFrom(data, lo) == PySlice(data, lo, Len(data))

\* data.startswith(c) for a one-byte c
startswith(data, c) == data # <<>> /\ data[1] = c

\* data.find(c) for a one-byte c: the first index, or -1
find(data, c) ==
    IF \E k \in 1..Len(data) : data[k] = c
    THEN (CHOOSE k \in 1..Len(data) : data[k] = c /\ \A j \in 1..(k - 1) : data[j] # c) - 1
    ELSE -1

\* bytes.strip() of ASCII spaces, as int() does before it parses
RECURSIVE strip(_)
strip(s) ==
    IF s # <<>> /\ s[1] = " " THEN strip(Tail(s))
    ELSE IF s # <<>> /\ s[Len(s)] = " " THEN strip(SubSeq(s, 1, Len(s) - 1))
    ELSE s

unsigned(s) == IF s # <<>> /\ s[1] \in {"+", "-"} THEN Tail(s) ELSE s

\* int(s) accepts: spaces around, one optional sign, decimal digits with single
\* underscores between digits
int_accepts(s) ==
    LET u == unsigned(strip(s))
    IN /\ u # <<>>
       /\ \A k \in 1..Len(u) :
             \/ isdigit(u[k])
             \/ /\ u[k] = "_"
                /\ k > 1 /\ k < Len(u)
                /\ isdigit(u[k - 1]) /\ isdigit(u[k + 1])

RECURSIVE digits_value(_, _)
digits_value(u, acc) ==
    IF u = <<>> THEN acc
    ELSE IF u[1] = "_" THEN digits_value(Tail(u), acc)
    ELSE digits_value(Tail(u), 10 * acc + digit_value(u[1]))

\* int(s) for an s that int_accepts
int_of(s) ==
    LET t == strip(s)
        magnitude == digits_value(unsigned(t), 0)
    IN IF t[1] = "-" THEN -magnitude ELSE magnitude

\* str(n).encode()
RECURSIVE str_digits(_)
str_digits(n) ==
    IF n < 10 THEN <<ByteOrder[ord("0") + n]>>
    ELSE Append(str_digits(n \div 10), ByteOrder[ord("0") + (n % 10)])

str(n) == IF n < 0 THEN <<"-">> \o str_digits(-n) ELSE str_digits(n)

\* Python values
NoValue == [t |-> "none", v |-> 0]
IntValue(n) == [t |-> "int", v |-> n]
BytesValue(s) == [t |-> "bytes", v |-> s]
ListValue(items) == [t |-> "list", v |-> items]
DictValue(pairs) == [t |-> "dict", v |-> pairs]

\* What a decoding function does: it returns (value, length), raises
\* ValueError, exceeds the recursion limit, or does not return
Returns(value, length) == [err |-> "none", value |-> value, length |-> length]
Raises(err) == [err |-> err, value |-> NoValue, length |-> 0]

decode_int(data) ==
    LET end_index == find(data, "e")
        num_str == PySlice(data, 1, end_index)
    IN IF end_index = -1 THEN Raises("ValueError")
       ELSE IF ~int_accepts(num_str) THEN Raises("ValueError")
       ELSE Returns(IntValue(int_of(num_str)), end_index + 1)

decode_string(data) ==
    LET colon_index == find(data, ":")
        start == colon_index + 1
    IN IF colon_index = -1 THEN Raises("ValueError")
       ELSE IF ~int_accepts(PySlice(data, 0, colon_index)) THEN Raises("ValueError")
       ELSE LET length == int_of(PySlice(data, 0, colon_index))
                end == start + length
            IN Returns(BytesValue(PySlice(data, start, end)), end)

\* d[key] = value on a dict kept as its pairs in insertion order
dict_set(d, key, value) ==
    IF \E k \in 1..Len(d) : d[k][1] = key
    THEN [k \in 1..Len(d) |-> IF d[k][1] = key THEN <<key, value>> ELSE d[k]]
    ELSE Append(d, <<key, value>>)

RECURSIVE decode_recursive(_, _)
RECURSIVE list_loop(_, _, _, _, _)
RECURSIVE dict_loop(_, _, _, _, _)

\* The while loop of decode_list from index i on
list_loop(data, i, items, depth, turns) ==
    IF PySlice(data, i, i + 1) = <<"e">> THEN Returns(ListValue(items), i + 1)
    ELSE IF turns = 0 THEN Raises("NoReturn")
    ELSE LET item == decode_recursive(PyFrom(data, i), depth - 1)
         IN IF item.err # "none" THEN item
            ELSE list_loop(data, i + item.length, Append(items, item.value), depth, turns - 1)

decode_list(data, depth) == list_loop(data, 1, <<>>, depth, MaxTurns)

\* The while loop of decode_dict from index i on
dict_loop(data, i, d, depth, turns) ==
    IF PySlice(data, i, i + 1) = <<"e">> THEN Returns(DictValue(d), i + 1)
    ELSE IF turns = 0 THEN Raises("NoReturn")
    ELSE LET key == decode_string(PyFrom(data, i))
         IN IF key.err # "none" THEN key
            ELSE LET value == decode_recursive(PyFrom(data, i + key.length), depth - 1)
                 IN IF value.err # "none" THEN value
                    ELSE dict_loop(data, i + key.length + value.length,
                                   dict_set(d, key.value.v, value.value), depth, turns - 1)

decode_dict(data, depth) == dict_loop(data, 1, <<>>, depth, MaxTurns)

\* depth is the number of nested decode_recursive calls left before Python's
\* recursion limit raises RecursionError
decode_recursive(data, depth) ==
    IF depth = 0 THEN Raises("RecursionError")
    ELSE IF startswith(data, "i") THEN decode_int(data)
    ELSE IF startswith(data, "l") THEN decode_list(data, depth)
    ELSE IF startswith(data, "d") THEN decode_dict(data, depth)
    ELSE IF PySlice(data, 0, 1) # <<>> /\ isdigit(data[1]) THEN decode_string(data)
    ELSE Raises("ValueError")

\* decode: ValueError and IndexError are raised again as ValueError, any other
\* exception passes through
decode(bencoded_data) ==
    LET r == decode_recursive(bencoded_data, RecursionLimit)
    IN IF r.err # "none" THEN Raises(r.err)
       ELSE IF r.length # Len(bencoded_data) THEN Raises("ValueError")
       ELSE Returns(r.value, r.length)

\* a < b for byte strings
RECURSIVE bytes_less(_, _)
bytes_less(a, b) ==
    IF b = <<>> THEN FALSE
    ELSE IF a = <<>> THEN TRUE
    ELSE IF a[1] # b[1] THEN ord(a[1]) < ord(b[1])
    ELSE bytes_less(Tail(a), Tail(b))

\* Mutant: the items of a dict are emitted in insertion order
unsorted(pairs) == pairs

\* sorted(data.items()): the keys of a dict are distinct, so the pairs are
\* ordered by key
RECURSIVE sorted(_)
sorted(pairs) ==
    IF pairs = <<>> THEN <<>>
    ELSE LET least == CHOOSE k \in 1..Len(pairs) :
                         \A j \in 1..Len(pairs) : j = k \/ bytes_less(pairs[k][1], pairs[j][1])
         IN <<pairs[least]>> \o
            sorted([j \in 1..(Len(pairs) - 1) |-> IF j < least THEN pairs[j] ELSE pairs[j + 1]])

RECURSIVE encode(_)
RECURSIVE encode_items(_)
RECURSIVE encode_pairs(_)

encode_items(items) ==
    IF items = <<>> THEN <<>> ELSE encode(Head(items)) \o encode_items(Tail(items))

encode_pairs(pairs) ==
    IF pairs = <<>> THEN <<>>
    ELSE encode(BytesValue(pairs[1][1])) \o encode(pairs[1][2]) \o encode_pairs(Tail(pairs))

encode(data) ==
    IF data.t = "bytes" THEN str(Len(data.v)) \o <<":">> \o data.v
    ELSE IF data.t = "int" THEN <<"i">> \o str(data.v) \o <<"e">>
    ELSE IF data.t = "list" THEN <<"l">> \o encode_items(data.v) \o <<"e">>
    ELSE <<"d">> \o encode_pairs(sorted(data.v)) \o <<"e">>

(***************************************************************************)
(* The values and byte strings the codec is run on.                        *)
(***************************************************************************)
\* The sequences over S of length at most n
RECURSIVE SeqsUpTo(_, _)
SeqsUpTo(S, n) ==
    IF n = 0 THEN {<<>>}
    ELSE SeqsUpTo(S, n - 1) \cup
         {Append(q, x) : q \in {p \in SeqsUpTo(S, n - 1) : Len(p) = n - 1}, x \in S}

Ints == {-MaxInt, -1, 0, 1, MaxInt}
ByteStrings == SeqsUpTo({"a", "e", "1", ":"}, MaxLen)
Keys == {<<>>, <<"a">>, <<"a", "a">>, <<"b">>, <<"1">>}
Atoms == {IntValue(n) : n \in Ints} \cup {BytesValue(s) : s \in ByteStrings}

\* The lists of at most MaxLen values of S, and the dicts of at most MaxLen
\* pairs with distinct keys and values of S, in every insertion order
Lists(S) == {ListValue(items) : items \in SeqsUpTo(S, MaxLen)}
Dicts(S) ==
    {DictValue(pairs) :
        pairs \in {p \in SeqsUpTo(Keys \X S, MaxLen) :
                      \A j, k \in 1..Len(p) : j # k => p[j][1] # p[k][1]}}

FewAtoms == {IntValue(0), IntValue(-MaxInt), BytesValue(<<>>), BytesValue(<<"e", ":">>)}
Shallow == Atoms \cup Lists(FewAtoms) \cup Dicts(FewAtoms)
FewShallow ==
    {IntValue(1), BytesValue(<<"1">>), ListValue(<<>>), ListValue(<<IntValue(0)>>),
     DictValue(<<>>), DictValue(<< <<<<"b">>, IntValue(0)>>, <<<<"a">>, BytesValue(<<"e">>)>> >>)}
Values == Shallow \cup Lists(FewShallow) \cup Dicts(FewShallow)

\* Byte strings: every string of at most MaxInputLen bytes of the alphabet,
\* and malformed inputs of each kind decode is specified to reject
Alphabet == {"d", "e", "i", "l", ":", "-", "0", "1", "2", "a"}
ShortInputs == SeqsUpTo(Alphabet, MaxInputLen)

Encodings == {encode(v) : v \in Shallow}

UnknownLead == {<<c>> \o w : c \in {"a", ":", "-", "e"}, w \in Encodings}
Truncated == UNION {{SubSeq(w, 1, n) : n \in 0..(Len(w) - 1)} : w \in Encodings}
Trailing == {Append(w, c) : w \in Encodings, c \in {"e", "0", "i"}}
MissingTerminator ==
    {SubSeq(w, 1, Len(w) - 1) : w \in {x \in Encodings : x[Len(x)] = "e"}}

\* A string whose length prefix is not a run of digits, at top level, in a
\* list, as a dict key and as a dict value
BadLengths == {<<"a">>, <<"1", "a">>, <<"-", "0">>, <<"-", "1">>, <<"-", "2">>, <<"-", "4">>}
BadStrings == {len \o <<":">> \o body : len \in BadLengths, body \in SeqsUpTo({"a"}, MaxLen)}
NonDigitLength ==
    BadStrings
    \cup {<<"l">> \o s \o <<"e">> : s \in BadStrings}
    \cup {<<"d">> \o s \o v \o <<"e">> : s \in BadStrings, v \in {<<"0", ":">>, <<"i", "1", "e">>}}
    \cup {<<"d", "1", ":", "a">> \o s \o <<"e">> : s \in BadStrings}

Malformed == UnknownLead \cup Truncated \cup Trailing \cup MissingTerminator \cup NonDigitLength

\* Inputs with unsorted keys, the encodings of the spec's examples
Examples ==
    {<<"d", "1", ":", "b", "0", ":", "1", ":", "a", "0", ":", "e">>,
     <<"l", "i", "4", "2", "e", "4", ":", "s", "p", "a", "m", "e">>,
     <<"d", "3", ":", "c", "o", "w", "3", ":", "m", "o", "o",
       "4", ":", "s", "p", "a", "m", "4", ":", "e", "g", "g", "s", "e">>}

Inputs == ShortInputs \cup Malformed \cup Examples \cup Encodings

(***************************************************************************)
(* The codec as a state machine: a value is encoded and the bytes decoded, *)
(* or a byte string is decoded and the value encoded again.                *)
(***************************************************************************)
CodecInit ==
    /\ have_pieces = [i \in Pieces |-> FALSE]
    /\ pending_pieces = <<>>
    /\ missing_pieces = Range(num_pieces)
    /\ total_downloaded = 0
    /\ file_handles = _setup_files
    /\ clock = TicksPerSecond
    /\ first_arrivals = 0
    /\ last = NoCall
    /\ sessions = <<>>
    /\ status = "none"
    /\ start_time = FALSE
    /\ end_time = FALSE
    /\ peers = <<>>
    /\ tasks = <<>>
    /\ supervisor = "none"
    /\ codec \in {[stage |-> "value", input_value |-> v, input_data |-> <<>>,
                   value |-> v, data |-> <<>>, err |-> "none"] : v \in Values}
            \cup {[stage |-> "bytes", input_value |-> NoValue, input_data |-> s,
                   value |-> NoValue, data |-> s, err |-> "none"] : s \in Inputs}
    /\ announce = NoAnnounce
    /\ dht = NoLookup

\* encode(value), for a given value or for the value decode returned
EncodeCall ==
    /\ codec.stage \in {"value", "parsed"}
    /\ codec.err = "none"
    /\ codec' = [codec EXCEPT !.data = encode(codec.value),
                              !.stage = IF codec.stage = "value" THEN "encoded" ELSE "reencoded"]
    /\ UNCHANGED <<pmvars, sessions, clientvars, announce, dht>>

\* decode(data), for given bytes or for the bytes encode returned
DecodeCall ==
    /\ codec.stage \in {"bytes", "encoded"}
    /\ codec' = [codec EXCEPT !.value = decode(codec.data).value,
                              !.err = decode(codec.data).err,
                              !.stage = IF codec.stage = "bytes" THEN "parsed" ELSE "decoded"]
    /\ UNCHANGED <<pmvars, sessions, clientvars, announce, dht>>

CodecNext == EncodeCall \/ DecodeCall

SpecBencode == CodecInit /\ [][CodecNext]_vars

(***************************************************************************)
(* Tracker.get_peers (tracker.py) as a function of what the HTTP request   *)
(* gives: a response with a status and a body, an aiohttp.ClientError or a *)
(* timeout.  The result is the returned pair or the exception raised.      *)
(***************************************************************************)
\* tracker_response.get(key, default) on a decoded dict
dict_get(d, key, default) ==
    IF \E k \in 1..Len(d) : d[k][1] = key
    THEN d[CHOOSE k \in 1..Len(d) : d[k][1] = key][2]
    ELSE default

GetPeersReturns(peer_list, interval) ==
    [err |-> "none", peers |-> peer_list, interval |-> interval]
GetPeersRaises(err) == [err |-> err, peers |-> <<>>, interval |-> NoValue]

\* return [], 60
failed_announce == GetPeersReturns(<<>>, IntValue(60))

\* The for loop of _parse_peers over a byte string: socket.inet_ntoa raises
\* OSError unless it gets 4 bytes, struct.unpack("!H") raises struct.error
\* unless it gets 2; an endpoint is kept as its 4 and 2 raw bytes
RECURSIVE parse_loop(_, _, _)
parse_loop(peers_blob, i, peer_list) ==
    IF i >= Len(peers_blob) THEN [err |-> "none", peers |-> peer_list]
    ELSE LET ip_bytes == PySlice(peers_blob, i, i + 4)
             port_bytes == PySlice(peers_blob, i + 4, i + 6)
         IN IF Len(ip_bytes) # 4 THEN [err |-> "OSError", peers |-> <<>>]
            ELSE IF Len(port_bytes) # 2 THEN [err |-> "struct.error", peers |-> <<>>]
            ELSE parse_loop(peers_blob, i + 6, Append(peer_list, <<ip_bytes, port_bytes>>))

\* _parse_peers: a peers value that is no byte string has no len() (int), or
\* gives slices inet_ntoa does not take (a list or dict that is not empty)
_parse_peers(peers_blob) ==
    IF peers_blob.t = "bytes" THEN parse_loop(peers_blob.v, 0, <<>>)
    ELSE IF peers_blob.t \in {"list", "dict"} /\ peers_blob.v = <<>>
    THEN [err |-> "none", peers |-> <<>>]
    ELSE [err |-> "TypeError", peers |-> <<>>]

key_peers == <<"p", "e", "e", "r", "s">>
key_interval == <<"i", "n", "t", "e", "r", "v", "a", "l">>

\* get_peers: only aiohttp.ClientError and asyncio.TimeoutError are caught
get_peers(response) ==
    IF response.kind \in {"ClientError", "TimeoutError"} THEN failed_announce
    ELSE IF response.status # 200 THEN failed_announce
    ELSE LET r == decode(response.body)
         IN IF r.err # "none" THEN GetPeersRaises(r.err)
            ELSE IF r.value.t # "dict" THEN GetPeersRaises("AttributeError")
            ELSE LET parsed == _parse_peers(dict_get(r.value.v, key_peers, BytesValue(<<>>)))
                 IN IF parsed.err # "none" THEN GetPeersRaises(parsed.err)
                    ELSE GetPeersReturns(parsed.peers,
                                         dict_get(r.value.v, key_interval, IntValue(60)))

\* The bodies a tracker answers with
Blob(n) == [k \in 1..n |-> "a"]
BlobLengths == {0, 3, 5, 6, 7, 12}
TrackerDicts ==
    {DictValue(<< <<key_peers, BytesValue(Blob(n))>> >>) : n \in BlobLengths}
    \cup {DictValue(<< <<key_interval, IntValue(MaxInt)>>, <<key_peers, BytesValue(Blob(n))>> >>) :
             n \in BlobLengths}
    \cup {DictValue(<< <<key_peers, v>> >>) :
             v \in {IntValue(0), ListValue(<<>>), ListValue(<<DictValue(<<>>)>>)}}
    \cup {DictValue(<<>>), DictValue(<< <<key_interval, IntValue(MaxInt)>> >>)}
Bodies ==
    {encode(v) : v \in TrackerDicts}
    \cup {SubSeq(encode(v), 1, Len(encode(v)) - 1) : v \in TrackerDicts}
    \cup {Append(encode(v), "e") : v \in TrackerDicts}
    \cup {<<>>, <<"a">>, <<"l", "e">>, <<"i", "1", "e">>, <<"0", ":">>}

Responses ==
    {[kind |-> "http", status |-> st, body |-> b] : st \in {200, 404, 500}, b \in Bodies}
    \cup {[kind |-> k, status |-> 0, body |-> <<>>] : k \in {"ClientError", "TimeoutError"}}

TrackerInit ==
    /\ have_pieces = [i \in Pieces |-> FALSE]
    /\ pending_pieces = <<>>
    /\ missing_pieces = Range(num_pieces)
    /\ total_downloaded = 0
    /\ file_handles = _setup_files
    /\ clock = TicksPerSecond
    /\ first_arrivals = 0
    /\ last = NoCall
    /\ sessions = <<>>
    /\ status = "none"
    /\ start_time = FALSE
    /\ end_time = FALSE
    /\ peers = <<>>
    /\ tasks = <<>>
    /\ supervisor = "none"
    /\ codec = NoCodec
    /\ announce = [NoAnnounce EXCEPT !.stage = "idle"]
    /\ dht = NoLookup

\* params["event"] of the request get_peers builds
params_event == "started"

\* The supervisor calls tracker.get_peers, for the first time or after the
\* previous call returned: the request is built and sent, and the tracker or the
\* network answers with response; announce.events is history, the event
\* parameter of every request made so far
GetPeersRequest(response) ==
    /\ announce.stage \in {"idle", "done"}
    /\ announce.result.err = "none"
    /\ Len(announce.events) < MaxAnnounces
    /\ announce' = [stage |-> "requested", response |-> response,
                    result |-> failed_announce,
                    events |-> Append(announce.events, params_event)]
    /\ UNCHANGED <<pmvars, sessions, clientvars, codec, dht>>

\* await tracker.get_peers(...) ends
GetPeersCall ==
    /\ announce.stage = "requested"
    /\ announce' = [announce EXCEPT !.stage = "done", !.result = get_peers(announce.response)]
    /\ UNCHANGED <<pmvars, sessions, clientvars, codec, dht>>

TrackerNext ==
    \/ \E response \in Responses : GetPeersRequest(response)
    \/ GetPeersCall

SpecTracker == TrackerInit /\ [][TrackerNext]_vars

(***************************************************************************)
(* The iterative DHT lookup: DHTClient.find_peers_for_infohash (dht.py),   *)
(* from the copy of the routing table on.  A node is its address (ip,      *)
(* port), the only part of a node the lookup looks at.  dht holds the      *)
(* locals of the lookup (nodes_to_query, queried_nodes, found_peers), the  *)
(* get_peers tasks of the batch handed to asyncio.gather, and the client's *)
(* pending_requests, which maps a transaction id to the task whose future  *)
(* is stored under it (0: no entry).  sent and timed_out are history: the  *)
(* number of get_peers queries given to sendto per address, and whether a  *)
(* query of the lookup has timed out.                                      *)
(***************************************************************************)
Addresses == 1..NumAddresses
Tids == 1..NumTids
DhtPeers == 1..NumDhtPeers

\* A key that a response dict does not have, and a value of a key that the
\* parser of the key raises on (values that is not a list of byte strings,
\* nodes whose length is not a multiple of 26)
NoKey(empty) == [t |-> "absent", v |-> empty]
Unparsable(empty) == [t |-> "malformed", v |-> empty]

\* The dicts message.get(b"r") can give: values is a list of compact peers,
\* nodes is compact node info
ResponseValues == {NoKey({}), Unparsable({})} \cup {[t |-> "list", v |-> v] : v \in SUBSET DhtPeers}
ResponseNodes ==
    {NoKey(<<>>), Unparsable(<<>>)}
    \cup {[t |-> "bytes", v |-> n] : n \in SeqsUpTo(Addresses, MaxNodes)}
ResponseDicts ==
    {[kind |-> "dict", values |-> v, nodes |-> NoKey(<<>>)] : v \in ResponseValues}
    \cup {[kind |-> "dict", values |-> NoKey({}), nodes |-> n] : n \in ResponseNodes}
    \cup {[kind |-> "dict", values |-> [t |-> "list", v |-> DhtPeers],
           nodes |-> [t |-> "bytes", v |-> <<1>>]]}

\* message.get(b"r") of a response without the key r
NoResponse == [kind |-> "None", values |-> NoKey({}), nodes |-> NoKey(<<>>)]

NoResult == [kind |-> "None", peers |-> {}, nodes |-> <<>>]

\* A get_peers coroutine of the batch that has not run yet
NewTask(address) ==
    [address |-> address, tid |-> 0, state |-> "created", future |-> "none",
     response |-> NoResponse, result |-> NoResult]

\* if node_addr_tuple in queried_nodes: continue
already_queried_never(node, queried_nodes) == FALSE

already_queried(node, queried_nodes) == node \in queried_nodes

\* The for loop that creates a batch: n nodes are popped from the left of
\* the queue; a node already queried is skipped, any other is added to
\* queried_nodes and gets a get_peers coroutine
RECURSIVE create_batch(_, _, _, _)
create_batch(n, nodes_to_query, queried_nodes, batch) ==
    IF n = 0
    THEN [nodes_to_query |-> nodes_to_query, queried_nodes |-> queried_nodes,
          tasks |-> batch]
    ELSE LET node == Head(nodes_to_query)
         IN IF already_queried(node, queried_nodes)
            THEN create_batch(n - 1, Tail(nodes_to_query), queried_nodes, batch)
            ELSE create_batch(n - 1, Tail(nodes_to_query), queried_nodes \cup {node},
                              Append(batch, NewTask(node)))

\* DHTClient.get_peers after _send_query returned response
dht_get_peers(response) ==
    IF response.kind = "None"
       \/ (response.values.t = "absent" /\ response.nodes.t = "absent")
    THEN NoResult
    ELSE IF response.values.t # "absent"
    THEN IF response.values.t = "malformed"
         THEN [NoResult EXCEPT !.kind = "exception"]
         ELSE [NoResult EXCEPT !.kind = "set", !.peers = response.values.v]
    ELSE IF response.nodes.t = "malformed"
         THEN [NoResult EXCEPT !.kind = "exception"]
         ELSE [NoResult EXCEPT !.kind = "list", !.nodes = response.nodes.v]

\* for node in result: if its address is not in queried_nodes, append it
RECURSIVE append_unqueried(_, _, _)
append_unqueried(nodes_to_query, nodes, queried_nodes) ==
    IF nodes = <<>> THEN nodes_to_query
    ELSE append_unqueried(IF Head(nodes) \notin queried_nodes
                          THEN Append(nodes_to_query, Head(nodes))
                          ELSE nodes_to_query,
                          Tail(nodes), queried_nodes)

\* The for loop over the results of gather, from result k on
RECURSIVE process_results(_, _, _, _, _)
process_results(results, k, found_peers, nodes_to_query, queried_nodes) ==
    IF k > Len(results)
    THEN [found_peers |-> found_peers, nodes_to_query |-> nodes_to_query]
    ELSE LET result == results[k]
         IN IF result.kind = "set"
            THEN process_results(results, k + 1, found_peers \cup result.peers,
                                 nodes_to_query, queried_nodes)
            ELSE IF result.kind = "list"
            THEN process_results(results, k + 1, found_peers,
                                 append_unqueried(nodes_to_query, result.nodes, queried_nodes),
                                 queried_nodes)
            ELSE process_results(results, k + 1, found_peers, nodes_to_query, queried_nodes)

\* dict.pop(tid, None)
pop(pending_requests, tid) == [pending_requests EXCEPT ![tid] = 0]

\* Every coroutine of the batch has run up to its first await
batch_started == \A q \in 1..Len(dht.tasks) : dht.tasks[q].state # "created"

otherthandht == <<pmvars, sessions, clientvars, codec, announce>>

\* bootstrap returned True: the routing table is not empty.  Its nodes are
\* distinct as dicts, so one address can be in it more than once.
DhtInit ==
    /\ have_pieces = [i \in Pieces |-> FALSE]
    /\ pending_pieces = <<>>
    /\ missing_pieces = Range(num_pieces)
    /\ total_downloaded = 0
    /\ file_handles = _setup_files
    /\ clock = TicksPerSecond
    /\ first_arrivals = 0
    /\ last = NoCall
    /\ sessions = <<>>
    /\ status = "none"
    /\ start_time = FALSE
    /\ end_time = FALSE
    /\ peers = <<>>
    /\ tasks = <<>>
    /\ supervisor = "none"
    /\ codec = NoCodec
    /\ announce = NoAnnounce
    /\ \E routing_table \in SeqsUpTo(Addresses, MaxTable) \ {<<>>} :
          dht = [NoLookup EXCEPT !.pc = "while", !.nodes_to_query = routing_table]

\* while nodes_to_query: one batch is created and handed to asyncio.gather
while_nodes_to_query ==
    /\ dht.pc = "while"
    /\ dht.nodes_to_query # <<>>
    /\ LET made == create_batch(Min(CONCURRENT_REQUESTS, Len(dht.nodes_to_query)),
                                dht.nodes_to_query, dht.queried_nodes, <<>>)
       IN dht' = [dht EXCEPT !.pc = "gather",
                             !.nodes_to_query = made.nodes_to_query,
                             !.queried_nodes = made.queried_nodes,
                             !.tasks = made.tasks]
    /\ UNCHANGED otherthandht

\* The queue is empty: the loop ends and find_peers_for_infohash returns
lookup_returns ==
    /\ dht.pc = "while"
    /\ dht.nodes_to_query = <<>>
    /\ dht' = [dht EXCEPT !.pc = "returned"]
    /\ UNCHANGED otherthandht

\* _send_query up to its await, for the first coroutine of the batch that
\* has not run: tid is what os.urandom(2) gives, the future is stored under
\* it, and sendto either takes the datagram or raises OSError, in which
\* case the query returns None after the finally clause popped tid
_send_query(q, tid, sendto_raises) ==
    /\ dht.pc = "gather"
    /\ q \in 1..Len(dht.tasks)
    /\ dht.tasks[q].state = "created"
    /\ \A p \in 1..(q - 1) : dht.tasks[p].state # "created"
    /\ dht' = [dht EXCEPT
                 !.sent[dht.tasks[q].address] = @ + 1,
                 !.pending_requests = IF sendto_raises THEN pop(@, tid)
                                      ELSE [@ EXCEPT ![tid] = q],
                 !.tasks[q] = IF sendto_raises
                              THEN [@ EXCEPT !.state = "done"]
                              ELSE [@ EXCEPT !.state = "waiting", !.tid = tid,
                                             !.future = "pending"]]
    /\ UNCHANGED otherthandht

\* _listen_for_responses receives a message with y = r, transaction id tid
\* and r = response: the future stored under tid, if there is one and it is
\* not done, gets the result.  Every other datagram leaves the state as it is.
_listen_for_responses(tid, response) ==
    /\ dht.pc = "gather"
    /\ batch_started
    /\ dht.pending_requests[tid] # 0
    /\ LET q == dht.pending_requests[tid]
       IN /\ dht.tasks[q].future = "pending"
          /\ dht' = [dht EXCEPT !.tasks[q].future = "done",
                                !.tasks[q].response = response]
    /\ UNCHANGED otherthandht

\* Mutant: wait_for without a timeout
wait_for_timeout_never(q) ==
    /\ dht.pc = "gather"
    /\ q \in 1..Len(dht.tasks)
    /\ dht.tasks[q].state = "waiting"
    /\ dht.tasks[q].future = "pending"
    /\ UNCHANGED vars

\* asyncio.wait_for(future, timeout=4.0) times out: the future is cancelled,
\* _send_query returns None and its finally clause pops tid
wait_for_timeout(q) ==
    /\ dht.pc = "gather"
    /\ batch_started
    /\ q \in 1..Len(dht.tasks)
    /\ dht.tasks[q].state = "waiting"
    /\ dht.tasks[q].future = "pending"
    /\ dht' = [dht EXCEPT !.tasks[q] = [@ EXCEPT !.state = "done", !.tid = 0,
                                                  !.future = "cancelled"],
                          !.pending_requests = pop(@, dht.tasks[q].tid),
                          !.timed_out = TRUE]
    /\ UNCHANGED otherthandht

\* The future of query q has its result: wait_for returns it, the finally
\* clause pops tid, and get_peers turns the response into its result or
\* raises
_send_query_returns(q) ==
    /\ dht.pc = "gather"
    /\ q \in 1..Len(dht.tasks)
    /\ dht.tasks[q].state = "waiting"
    /\ dht.tasks[q].future = "done"
    /\ dht' = [dht EXCEPT !.tasks[q] = [@ EXCEPT !.state = "done", !.tid = 0,
                                                  !.response = NoResponse,
                                                  !.result = dht_get_peers(dht.tasks[q].response)],
                          !.pending_requests = pop(@, dht.tasks[q].tid)]
    /\ UNCHANGED otherthandht

\* Every coroutine of the batch has ended: gather returns their results and
\* exceptions, and the for loop over the results runs
gather_returns ==
    /\ dht.pc = "gather"
    /\ \A q \in 1..Len(dht.tasks) : dht.tasks[q].state = "done"
    /\ LET results == [q \in 1..Len(dht.tasks) |-> dht.tasks[q].result]
           after == process_results(results, 1, dht.found_peers,
                                    dht.nodes_to_query, dht.queried_nodes)
       IN dht' = [dht EXCEPT !.pc = "while",
                             !.tasks = <<>>,
                             !.found_peers = after.found_peers,
                             !.nodes_to_query = after.nodes_to_query]
    /\ UNCHANGED otherthandht

Batch == 1..CONCURRENT_REQUESTS

DhtNext ==
    \/ while_nodes_to_query
    \/ lookup_returns
    \/ \E q \in Batch, tid \in Tids, sendto_raises \in BOOLEAN :
          _send_query(q, tid, sendto_raises)
    \/ \E tid \in Tids, response \in ResponseDicts \cup {NoResponse} :
          _listen_for_responses(tid, response)
    \/ \E q \in Batch : wait_for_timeout(q)
    \/ \E q \in Batch : _send_query_returns(q)
    \/ gather_returns

SpecDHT == DhtInit /\ [][DhtNext]_vars

\* The event loop runs every task that is ready, and the timer of wait_for
\* fires; the arrival of a response is not promised
_send_query_starts(q) ==
    \E tid \in Tids, sendto_raises \in BOOLEAN : _send_query(q, tid, sendto_raises)

SpecDHTFair ==
    /\ DhtInit
    /\ [][DhtNext]_vars
    /\ WF_vars(while_nodes_to_query)
    /\ WF_vars(lookup_returns)
    /\ WF_vars(gather_returns)
    /\ \A q \in Batch :
          /\ WF_vars(_send_query_starts(q))
          /\ WF_vars(wait_for_timeout(q))
          /\ WF_vars(_send_query_returns(q))

(***************************************************************************)
(* Definitions the properties are stated with.                             *)
(***************************************************************************)
InSeq(x, s) == \E k \in 1..Len(s) : s[k] = x

\* The nominal length of a block of a piece: min(BLOCK_SIZE, L_i - offset)
BlockLength(piece_index, block_index) ==
    Min(BLOCK_SIZE, _get_piece_length(piece_index) - block_index * BLOCK_SIZE)

\* The byte of the output files at a global offset (0 when the file is too short)
DiskByte(g) ==
    LET f == CHOOSE h \in 1..Len(file_handles) :
                 file_handles[h].start <= g /\ g < file_handles[h].end
        at == g - file_handles[f].start + 1
    IN IF at \in DOMAIN file_handles[f].content THEN file_handles[f].content[at] ELSE 0

\* The on-disk byte range [i*L, i*L + L_i) of piece i
OnDisk(i) == [k \in 1.._get_piece_length(i) |-> DiskByte(i * piece_length + k - 1)]

\* The lengths of the verified pieces plus the lengths of the received blocks of
\* the pending pieces
VerifiedBytes ==
    SumSeq([k \in 1..num_pieces |-> IF have_pieces[k - 1] THEN _get_piece_length(k - 1) ELSE 0])
ReceivedBytes(piece) ==
    SumSeq([b \in 1..Len(piece.blocks) |->
              IF piece.blocks[b] THEN BlockLength(piece.index, b - 1) ELSE 0])
HeldBytes ==
    VerifiedBytes + SumSeq([k \in 1..Len(pending_pieces) |-> ReceivedBytes(pending_pieces[k])])

\* The (position in pending_pieces, block index) pairs of the blocks that were
\* requested, are not received, and were requested more than REQUEST_TIMEOUT ago
TimedOutBlocks ==
    {pb \in (1..Len(pending_pieces)) \X (0..(CeilDiv(piece_length, BLOCK_SIZE) - 1)) :
        /\ pb[2] < Len(pending_pieces[pb[1]].blocks)
        /\ pending_pieces[pb[1]].requested_blocks[pb[2] + 1] # 0
        /\ ~pending_pieces[pb[1]].blocks[pb[2] + 1]
        /\ clock > (pending_pieces[pb[1]].requested_blocks[pb[2] + 1] + REQUEST_TIMEOUT)
                      * TicksPerSecond}

\* The manager state as block_received returns it when it changes nothing
Untouched(r) ==
    /\ r.have = have_pieces
    /\ r.pending = pending_pieces
    /\ r.missing = missing_pieces
    /\ r.total = total_downloaded
    /\ r.files = file_handles

(***************************************************************************)
(* C1.  In every reachable state each piece index is either verified       *)
(* (have_pieces) or in missing_pieces, never both and never neither; every *)
(* key of pending_pieces is in missing_pieces; missing_pieces holds no     *)
(* index twice.                                                            *)
(***************************************************************************)
C1_Partition ==
    /\ \A i \in Pieces : have_pieces[i] <=> ~InSeq(i, missing_pieces)
    /\ \A k \in 1..Len(missing_pieces) : missing_pieces[k] \in Pieces
    /\ \A k \in 1..Len(pending_pieces) : InSeq(pending_pieces[k].index, missing_pieces)
    /\ \A j, k \in 1..Len(missing_pieces) : j # k => missing_pieces[j] # missing_pieces[k]

\* A piece is verified, another is pending, and a piece has failed its hash before
C1_Witness ==
    /\ \E i \in Pieces : have_pieces[i]
    /\ Len(pending_pieces) > 0
    /\ total_downloaded > HeldBytes

(***************************************************************************)
(* C2.  Whenever have_pieces[i] is true, the SHA-1 of the on-disk byte     *)
(* range [i*L, i*L + L_i) equals the expected hash of piece i.             *)
(***************************************************************************)
C2_HaveImpliesDiskHash ==
    \A i \in Pieces : have_pieces[i] => sha1(OnDisk(i)) = pieces_hashes[i]

\* Piece 0, which spans two stripes, is verified and a later call has been made
C2_Witness ==
    /\ have_pieces[0]
    /\ last.op = "get_next_request"
    /\ Len(pending_pieces) > 0

(***************************************************************************)
(* C3.  For a pending piece, block_received of a block whose bit is unset  *)
(* adds exactly len(data) to total_downloaded; block_received of a block   *)
(* whose bit is set leaves total_downloaded, the bitmap and the buffer     *)
(* (the whole manager state) unchanged.                                    *)
(***************************************************************************)
C3_FirstArrivalCounts ==
    \A piece_index \in PieceIndices :
        LET pos == pos_of(pending_pieces, piece_index)
        IN pos # 0 =>
            \A offset \in Offsets :
                LET block_index == offset \div BLOCK_SIZE
                IN block_index < Len(pending_pieces[pos].blocks) =>
                    \A data \in DataChoices(piece_index, offset) :
                        LET r == block_received(piece_index, offset, data)
                        IN IF ~pending_pieces[pos].blocks[block_index + 1]
                           THEN r.total = total_downloaded + Len(data)
                           ELSE Untouched(r)

\* A block has been accepted into a piece that is still pending, so that both a
\* first arrival and a duplicate can follow
C3_Witness ==
    /\ last.op = "block_received"
    /\ total_downloaded > 0
    /\ \E k \in 1..Len(pending_pieces) :
           /\ \E b \in 1..Len(pending_pieces[k].blocks) : pending_pieces[k].blocks[b]
           /\ \E b \in 1..Len(pending_pieces[k].blocks) : ~pending_pieces[k].blocks[b]

(***************************************************************************)
(* C4.  As claimed: total_downloaded equals the lengths of the verified    *)
(* pieces plus the lengths of the received blocks of the pending pieces.   *)
(***************************************************************************)
C4_Original == total_downloaded = HeldBytes

(***************************************************************************)
(* C4, amended.  total_downloaded equals the summed len(data) of every     *)
(* block that was accepted on its first arrival, the blocks of pieces      *)
(* later discarded for a hash mismatch included.                           *)
(***************************************************************************)
C4_CountsFirstArrivals == total_downloaded = first_arrivals

\* A piece was dropped for a hash mismatch: more bytes are counted than are held
C4_Witness ==
    /\ last.op = "block_received"
    /\ total_downloaded > HeldBytes
    /\ pending_pieces = <<>>

(***************************************************************************)
(* C5.  When some pending piece has a timed-out block, get_next_request    *)
(* returns a timed-out block of a piece that has a pending record (it      *)
(* creates no record), and stamps its requested-at with the current time   *)
(* (int(time.time())).                                                     *)
(***************************************************************************)
C5_TimeoutFirst ==
    TimedOutBlocks # {} =>
        \A shuffled \in shuffles(missing_pieces) :
            LET r == get_next_request(pending_pieces, shuffled, clock)
            IN /\ r.ret # None
               /\ Len(r.pending) = Len(pending_pieces)
               /\ LET pos == pos_of(pending_pieces, r.ret[1])
                      block_index == r.ret[2] \div BLOCK_SIZE
                  IN /\ pos # 0
                     /\ <<pos, block_index>> \in TimedOutBlocks
                     /\ r.ret = <<r.ret[1], block_index * BLOCK_SIZE,
                                  BlockLength(r.ret[1], block_index)>>
                     /\ r.pending[pos].requested_blocks[block_index + 1] = clock \div TicksPerSecond

\* get_next_request has just returned a block that was stamped now, while
\* another block is still timed out and a missing piece has no record yet
C5_Witness ==
    /\ last.op = "get_next_request"
    /\ last.ret # None
    /\ TimedOutBlocks # {}
    /\ Len(pending_pieces) < Len(missing_pieces)
    /\ pos_of(pending_pieces, last.ret[1]) # 0
    /\ clock > (1 + REQUEST_TIMEOUT) * TicksPerSecond

(***************************************************************************)
(* C6.  As claimed: block_received for a pending piece rejects a block     *)
(* whose offset is not a multiple of BLOCK_SIZE or whose length is not     *)
(* min(BLOCK_SIZE, L_i - offset), and changes nothing.                     *)
(***************************************************************************)
C6_Original ==
    \A piece_index \in Pieces :
        pos_of(pending_pieces, piece_index) # 0 =>
            \A offset \in Offsets :
                \A data \in DataChoices(piece_index, offset) :
                    (\/ offset % BLOCK_SIZE # 0
                     \/ Len(data) # Min(BLOCK_SIZE, _get_piece_length(piece_index) - offset))
                    => LET r == block_received(piece_index, offset, data)
                       IN r.ret = "False" /\ Untouched(r)

(***************************************************************************)
(* C7.  As claimed: block_received for a verified piece accepts the block  *)
(* (returns True) and changes nothing.                                     *)
(***************************************************************************)
C7_Original ==
    \A piece_index \in Pieces :
        have_pieces[piece_index] =>
            \A offset \in Offsets :
                \A data \in DataChoices(piece_index, offset) :
                    LET r == block_received(piece_index, offset, data)
                    IN r.ret = "True" /\ Untouched(r)

(***************************************************************************)
(* C7, amended.  block_received for a verified piece returns False (the    *)
(* piece has no pending record) and changes nothing: no record is created, *)
(* no buffer or file is written, total_downloaded, have_pieces and         *)
(* missing_pieces stay as they were.                                       *)
(***************************************************************************)
C7_VerifiedIgnored ==
    \A piece_index \in Pieces :
        have_pieces[piece_index] =>
            \A offset \in Offsets :
                \A data \in DataChoices(piece_index, offset) :
                    LET r == block_received(piece_index, offset, data)
                    IN r.ret = "False" /\ Untouched(r)

\* block_received has just returned False while a piece was verified
C7_Witness ==
    /\ \E i \in Pieces : have_pieces[i]
    /\ last.op = "block_received"
    /\ last.ret = "False"

(***************************************************************************)
(* C8.  When the last missing block of a pending piece arrives and the     *)
(* buffer's hash differs from the expected one, block_received removes the *)
(* record, leaves have_pieces, missing_pieces and the files as they were,  *)
(* and a following get_next_request that selects the piece returns its     *)
(* block 0 from a fresh record (nothing received, only block 0 requested); *)
(* some shuffle selects it unless a timed-out block goes first.            *)
(***************************************************************************)
C8_MismatchDropsRecord ==
    \A piece_index \in Pieces :
        LET pos == pos_of(pending_pieces, piece_index)
        IN pos # 0 =>
            \A offset \in Offsets :
                LET block_index == offset \div BLOCK_SIZE
                IN (/\ block_index < Len(pending_pieces[pos].blocks)
                    /\ \A b \in 1..Len(pending_pieces[pos].blocks) :
                           pending_pieces[pos].blocks[b] <=> b # block_index + 1)
                   => \A data \in DataChoices(piece_index, offset) :
                          sha1(add_block(pending_pieces[pos], offset, data).data)
                                  # pieces_hashes[piece_index]
                          => LET r == block_received(piece_index, offset, data)
                                 Selected(n) == n.ret # None /\ n.ret[1] = piece_index
                             IN /\ pos_of(r.pending, piece_index) = 0
                                /\ Len(r.pending) = Len(pending_pieces) - 1
                                /\ r.have = have_pieces /\ ~r.have[piece_index]
                                /\ r.missing = missing_pieces /\ InSeq(piece_index, r.missing)
                                /\ r.files = file_handles
                                /\ \A shuffled \in shuffles(r.missing) :
                                       LET n == get_next_request(r.pending, shuffled, clock)
                                       IN Selected(n) =>
                                           LET rec == n.pending[pos_of(n.pending, piece_index)]
                                           IN /\ n.ret = <<piece_index, 0, BlockLength(piece_index, 0)>>
                                              /\ \A b \in 1..Len(rec.blocks) : ~rec.blocks[b]
                                              /\ \A b \in 1..Len(rec.blocks) :
                                                     rec.requested_blocks[b] =
                                                         (IF b = 1 THEN clock \div TicksPerSecond ELSE 0)
                                              /\ rec.data = Zeros(_get_piece_length(piece_index))
                                              /\ Len(rec.blocks) =
                                                     CeilDiv(_get_piece_length(piece_index), BLOCK_SIZE)
                                /\ (\A k \in 1..Len(r.pending) :
                                        get_timed_out_blocks(r.pending[k], clock) = <<>>)
                                   => \E shuffled \in shuffles(r.missing) :
                                          Selected(get_next_request(r.pending, shuffled, clock))

\* After a hash mismatch of the two-block piece 0 (more bytes counted than
\* held), get_next_request has handed out its block 0 from a new record
C8_Witness ==
    /\ total_downloaded > HeldBytes
    /\ last.op = "get_next_request"
    /\ last.ret = <<0, 0, BLOCK_SIZE>>
    /\ ~have_pieces[0]

(***************************************************************************)
(* C9: for every peer session, at all times, the in-flight request counter *)
(* pending_requests is at least 0 and at most MAX_PENDING_REQUESTS, so the  *)
(* session never has more than MAX_PENDING_REQUESTS requests sent and not   *)
(* yet answered.  The piece handler decrements the counter for every piece  *)
(* message, requested or not, so the counter falls below 0.                 *)
(***************************************************************************)
C9_Original ==
    \A s \in DOMAIN sessions :
        /\ sessions[s].pending_requests >= 0
        /\ sessions[s].pending_requests <= MAX_PENDING_REQUESTS

(***************************************************************************)
(* C10: for every download, at all times, the number of peer sessions in   *)
(* the download's roster (handshake completed, not yet closed) is at most   *)
(* MAX_PEERS.  The supervisor compares the roster with MAX_PEERS when it    *)
(* creates a task, and a session joins the roster only after its handshake, *)
(* so one peer list can put more than MAX_PEERS sessions in the roster.     *)
(***************************************************************************)
C10_Original == Len(peers) <= MAX_PEERS

(***************************************************************************)
(* Definitions the session properties are stated with.                     *)
(***************************************************************************)
InRosterOf(roster, s) == \E j \in 1..Len(roster) : roster[j] = s

Mismatched(session) ==
    session.reply.kind = "full" /\ session.reply.info_hash # info_hash

(***************************************************************************)
(* C11: a session that received a 68-byte handshake whose infohash differs *)
(* from the torrent's is closed: its writer was closed, it has written      *)
(* nothing but its own handshake (no bitfield, interested or request), it   *)
(* has not called the Piece Manager, and it is not in the roster; its task  *)
(* is in close() or has ended.                                              *)
(***************************************************************************)
C11_MismatchCloses ==
    \A s \in DOMAIN sessions :
        Mismatched(sessions[s]) =>
            /\ sessions[s].writer = "closed"
            /\ sessions[s].sent \subseteq {"handshake"}
            /\ ~sessions[s].used_manager
            /\ ~sessions[s].is_interested
            /\ ~InRosterOf(peers, s)
            /\ sessions[s].pc \in {"close_handshake", "returned", "crashed"}

C11_Witness ==
    \E s \in DOMAIN sessions :
        /\ Mismatched(sessions[s])
        /\ sessions[s].pc = "returned"
        /\ sessions[s].writer = "closed"

(***************************************************************************)
(* C12: a session whose handshake reply was fewer than 68 bytes followed by *)
(* end of stream is closed cleanly: its writer is closed, it is not in the  *)
(* roster, and no exception leaves its task.  readexactly raises            *)
(* IncompleteReadError, which perform_handshake does not catch.             *)
(***************************************************************************)
C12_Original ==
    \A s \in DOMAIN sessions :
        sessions[s].reply.kind = "short" =>
            /\ sessions[s].writer = "closed"
            /\ ~InRosterOf(peers, s)
            /\ sessions[s].pc # "crashed"

(***************************************************************************)
(* C13: Tracker.get_peers returns the pair (empty peer list, interval 60)   *)
(* and raises nothing for every failed announce: a status other than 200, a *)
(* network error or timeout, a body that is not valid bencoding, or a peers *)
(* string whose length is not a multiple of 6.  Only network errors and     *)
(* timeouts are caught; ValueError of decode and the errors of _parse_peers *)
(* leave get_peers.                                                         *)
(***************************************************************************)
FailedAnnounce(response) ==
    \/ response.kind # "http"
    \/ response.status # 200
    \/ decode(response.body).err # "none"
    \/ /\ decode(response.body).value.t = "dict"
       /\ dict_get(decode(response.body).value.v, key_peers, BytesValue(<<>>)).t = "bytes"
       /\ Len(dict_get(decode(response.body).value.v, key_peers, BytesValue(<<>>)).v) % 6 # 0

C13_Original ==
    (announce.stage = "done" /\ FailedAnnounce(announce.response)) =>
        announce.result = failed_announce

(***************************************************************************)
(* Definitions the codec properties are stated with.                       *)
(***************************************************************************)
\* a == b in Python: dicts are equal when they hold the same pairs, in any order
RECURSIVE py_eq(_, _)
py_eq(a, b) ==
    /\ a.t = b.t
    /\ IF a.t = "list"
       THEN Len(a.v) = Len(b.v) /\ \A k \in 1..Len(a.v) : py_eq(a.v[k], b.v[k])
       ELSE IF a.t = "dict"
       THEN /\ Len(a.v) = Len(b.v)
            /\ \A k \in 1..Len(a.v) :
                  \E j \in 1..Len(b.v) : a.v[k][1] = b.v[j][1] /\ py_eq(a.v[k][2], b.v[j][2])
       ELSE a.v = b.v

\* The pairs of every dict of v, in the order decode met them in the byte
\* string, have strictly ascending keys
RECURSIVE ascending_keys(_)
ascending_keys(v) ==
    IF v.t = "list" THEN \A k \in 1..Len(v.v) : ascending_keys(v.v[k])
    ELSE IF v.t = "dict"
    THEN /\ \A k \in 1..(Len(v.v) - 1) : bytes_less(v.v[k][1], v.v[k + 1][1])
         /\ \A k \in 1..Len(v.v) : ascending_keys(v.v[k][2])
    ELSE TRUE

(***************************************************************************)
(* C14: for every value v built from integers, byte strings, lists and     *)
(* dicts with byte-string keys, decode(encode(v)) returns a value equal to  *)
(* v, and the bytes encode(v) list the keys of every dict in ascending byte *)
(* order, whatever order the keys of v were inserted in.                    *)
(***************************************************************************)
C14_RoundTrip ==
    /\ codec.stage = "encoded" =>
          /\ decode(codec.data).err = "none"
          /\ ascending_keys(decode(codec.data).value)
    /\ codec.stage = "decoded" =>
          /\ codec.err = "none"
          /\ py_eq(codec.value, codec.input_value)

C14_Witness ==
    /\ codec.stage = "decoded"
    /\ codec.err = "none"
    /\ codec.input_value.t = "dict"
    /\ Len(codec.input_value.v) = 2
    /\ bytes_less(codec.input_value.v[2][1], codec.input_value.v[1][1])
    /\ codec.value.v[1][1] = codec.input_value.v[2][1]

(***************************************************************************)
(* C15: the infohash is SHA-1 over the exact bytes that encode the info     *)
(* value in the metainfo file; equivalently, for every byte string s that   *)
(* decode accepts, encode(decode(s)) = s, also when s has unsorted dict     *)
(* keys or integers written with leading zeros.  Torrent hashes             *)
(* encode(decode(s)), which sorts the keys and writes integers and lengths  *)
(* canonically.                                                             *)
(***************************************************************************)
C15_Original ==
    codec.stage = "reencoded" => codec.data = codec.input_data

(***************************************************************************)
(* C16: decode raises its malformed-input error (ValueError) and returns no *)
(* value for every input with an unknown leading byte, a missing            *)
(* terminator, a non-digit string length, a truncated string, list or dict  *)
(* (at top level or nested), or trailing bytes after the top-level value.   *)
(* A dict key is handed to decode_string without a look at its first byte,  *)
(* and int() takes a sign, so a key length like -0 or -4 is not rejected.   *)
(***************************************************************************)
C16_Original ==
    (codec.stage = "parsed" /\ codec.input_data \in Malformed) =>
        (codec.err = "ValueError" /\ codec.value = NoValue)

(***************************************************************************)
(* C17: decode rejects the non-canonical integer i-0e: decode(b"i-0e")      *)
(* fails instead of returning 0.  decode_int hands the digits to int(),     *)
(* which reads -0 as 0.                                                     *)
(***************************************************************************)
C17_Original ==
    (codec.stage = "parsed" /\ codec.input_data = <<"i", "-", "0", "e">>) =>
        codec.err = "ValueError"

(***************************************************************************)
(* Definitions the file properties are stated with.                        *)
(***************************************************************************)
\* The output files, concatenated in declared order
RECURSIVE FileConcat(_)
FileConcat(handles) ==
    IF handles = <<>> THEN <<>> ELSE Head(handles).content \o FileConcat(Tail(handles))

\* The bytes of the files at the global range [i*L, i*L + L_i) of piece i
PieceOnDisk(handles, i) ==
    SubSeq(FileConcat(handles), i * piece_length + 1, i * piece_length + _get_piece_length(i))

\* The authoritative pieces 0..n-1, concatenated
RECURSIVE PiecesConcat(_)
PiecesConcat(n) == IF n = 0 THEN <<>> ELSE PiecesConcat(n - 1) \o PieceContent(n - 1)

(***************************************************************************)
(* C18: the output files, concatenated in declared order, hold the verified *)
(* piece buffers in index order.  Every file keeps its declared length; in  *)
(* every reachable state, for every block whose arrival completes a piece   *)
(* with a matching hash, _write_piece_to_disk puts exactly the piece buffer *)
(* at the piece's global range, across stripe boundaries and around the     *)
(* zero-length file, and changes no byte outside that range; and once every *)
(* piece is verified the concatenation is total_size bytes long and its     *)
(* range of every piece i carries the hash of piece i.                      *)
(***************************************************************************)
C18_FilesHoldPieces ==
    /\ \A f \in 1..Len(file_handles) : Len(file_handles[f].content) = files[f]
    /\ is_manager_complete =>
          /\ Len(FileConcat(file_handles)) = total_size
          /\ \A i \in Pieces : sha1(PieceOnDisk(file_handles, i)) = pieces_hashes[i]
    /\ \A piece_index \in Pieces :
          LET pos == pos_of(pending_pieces, piece_index)
          IN pos # 0 =>
              \A offset \in Offsets :
                  LET block_index == offset \div BLOCK_SIZE
                  IN (/\ block_index < Len(pending_pieces[pos].blocks)
                      /\ \A b \in 1..Len(pending_pieces[pos].blocks) :
                             pending_pieces[pos].blocks[b] <=> b # block_index + 1)
                     => \A data \in DataChoices(piece_index, offset) :
                            LET added == add_block(pending_pieces[pos], offset, data)
                            IN sha1(added.data) = pieces_hashes[piece_index]
                               => LET r == block_received(piece_index, offset, data)
                                      before == FileConcat(file_handles)
                                      after == FileConcat(r.files)
                                      first == piece_index * piece_length + 1
                                      past == first + _get_piece_length(piece_index)
                                  IN /\ r.have[piece_index]
                                     /\ Len(after) = total_size
                                     /\ PieceOnDisk(r.files, piece_index) = added.data
                                     /\ \A g \in 1..total_size :
                                            (g < first \/ g >= past) => after[g] = before[g]
                                     /\ \A f \in 1..Len(files) :
                                            /\ Len(r.files[f].content) = files[f]
                                            /\ r.files[f].start = file_handles[f].start
                                            /\ r.files[f].end = file_handles[f].end

\* Every piece is verified, the last of them by the call just made, and the
\* files hold the payload
C18_Witness ==
    /\ is_manager_complete
    /\ last.op = "block_received"
    /\ FileConcat(file_handles) = PiecesConcat(num_pieces)
    /\ FileConcat(file_handles) # Zeros(total_size)

(***************************************************************************)
(* C19: a peer session sends a request message only when it has already    *)
(* sent interested and the peer is not choking it.  In every step in which  *)
(* a session writes a request (the step of _send_requests that raises the   *)
(* counter, or the one in which request_piece fails), the session had sent  *)
(* interested and is_choking was false: the last choke or unchoke message   *)
(* it read was an unchoke.  is_choking starts true, so no request precedes  *)
(* the first unchoke.                                                       *)
(***************************************************************************)
RequestWritten(s) ==
    /\ sessions[s].pc \in {"send_first", "send"}
    /\ \/ sessions'[s].pending_requests = sessions[s].pending_requests + 1
       \/ sessions'[s].pc \in {"crashed", "close_loop"}

C19_RequestsOnlyUnchoked ==
    [][\A s \in DOMAIN sessions :
           RequestWritten(s) =>
               /\ sessions[s].is_interested
               /\ "interested" \in sessions[s].sent
               /\ ~sessions[s].is_choking]_vars

\* A session that was unchoked, sent requests, and was choked again with a
\* request written before the choke
C19_Witness ==
    \E s \in DOMAIN sessions :
        /\ "request" \in sessions[s].sent
        /\ sessions[s].is_interested
        /\ sessions[s].is_choking
        /\ sessions[s].pc = "read"

(***************************************************************************)
(* C20: every session that was added to the roster download.peers is       *)
(* removed from it once the session terminates, whatever failure ends it:   *)
(* the roster never holds a session whose task has returned or has ended    *)
(* with an exception.  _manage_peer removes the session only after          *)
(* message_loop returns; an exception of send_interested, of the first      *)
(* _send_requests or of close() ends the task before the removal.           *)
(***************************************************************************)
C20_Original ==
    \A s \in DOMAIN sessions :
        sessions[s].pc \in {"returned", "crashed"} => ~InRosterOf(peers, s)

\* A _manage_peer task whose session is connecting, handshaking or in the roster
\* and running
LiveTask(k) == tasks[k].pc \in {"connect", "handshake", "interested", "loop"}

(***************************************************************************)
(* C21.  As claimed: the supervisor never runs two sessions toward the     *)
(* same endpoint at the same time, also when the endpoint appears twice in *)
(* one peer list or again in a later announce while its first session is   *)
(* still connecting or handshaking.                                        *)
(***************************************************************************)
C21_Original ==
    \A j, k \in 1..Len(tasks) :
        (j # k /\ LiveTask(j) /\ LiveTask(k)) => tasks[j].endpoint # tasks[k].endpoint

(***************************************************************************)
(* C22.  The status of a download only moves STARTING -> DOWNLOADING ->    *)
(* SEEDING, one step at a time and never backwards; start_time is set      *)
(* whenever the status has left STARTING; and in every state with status   *)
(* SEEDING the Piece Manager is complete and end_time is set.              *)
(***************************************************************************)
C22_StatusOrder ==
    /\ [](/\ status \in {"STARTING", "DOWNLOADING", "SEEDING"}
          /\ status # "STARTING" => start_time
          /\ status = "SEEDING" => (is_manager_complete /\ end_time)
          /\ end_time => status = "SEEDING")
    /\ [][\/ status' = status
          \/ status = "STARTING" /\ status' = "DOWNLOADING"
          \/ status = "DOWNLOADING" /\ status' = "SEEDING"]_vars

\* The supervisor has returned after the last piece was verified: the download
\* is SEEDING with both times set
C22_Witness ==
    /\ status = "SEEDING"
    /\ supervisor = "done"
    /\ start_time /\ end_time
    /\ is_manager_complete

(***************************************************************************)
(* C23.  As claimed: once the Piece Manager is complete, the supervisor    *)
(* task eventually records end_time and sets status = SEEDING, whatever    *)
(* each tracker announce produced before that, an undecodable response     *)
(* body included.                                                          *)
(***************************************************************************)
C23_Original == is_manager_complete ~> (status = "SEEDING" /\ end_time)

(***************************************************************************)
(* C24.  As claimed: across the announces of one download, event=started   *)
(* is carried only by the first announce and every later poll carries no   *)
(* event parameter.                                                        *)
(***************************************************************************)
C24_Original ==
    \A k \in 1..Len(announce.events) :
        announce.events[k] = (IF k = 1 THEN "started" ELSE "none")

\* The piece indices of the pending pieces that have a timed-out block
TimedOutPieces == {pending_pieces[pb[1]].index : pb \in TimedOutBlocks}

(***************************************************************************)
(* C26.  As claimed: when several blocks are timed out, get_next_request   *)
(* returns the lowest-indexed timed-out block of the lowest-indexed        *)
(* pending piece that has a timed-out block, whatever the order in which   *)
(* the pending piece records were created.                                 *)
(***************************************************************************)
C26_Original ==
    TimedOutBlocks # {} =>
        \A shuffled \in shuffles(missing_pieces) :
            LET piece_index == CHOOSE i \in TimedOutPieces : \A j \in TimedOutPieces : i <= j
                pos == pos_of(pending_pieces, piece_index)
                late == {pb[2] : pb \in {x \in TimedOutBlocks : x[1] = pos}}
                block_index == CHOOSE b \in late : \A c \in late : b <= c
            IN get_next_request(pending_pieces, shuffled, clock).ret
                   = request_for(piece_index, block_index)

\* The clock values up to REQUEST_TIMEOUT after t that the model's clock reaches
UpToTimeoutAfter(t) ==
    {u \in t..(t + REQUEST_TIMEOUT * TicksPerSecond) : u <= MaxSeconds * TicksPerSecond}

(***************************************************************************)
(* C27.  As claimed: get_next_request never returns a block that is        *)
(* already received in its piece record, and a block it has returned is    *)
(* not returned again by a call made REQUEST_TIMEOUT or less later while   *)
(* the piece record persists and the block is unreceived.  Stated on the   *)
(* step of a get_next_request call that returns a request: the block was   *)
(* unreceived before the call, and on the manager state the call leaves,   *)
(* no call at any time up to REQUEST_TIMEOUT later returns the same        *)
(* request, for any shuffle outcome.                                       *)
(***************************************************************************)
C27_Original ==
    [][(last'.op = "get_next_request" /\ last'.ret # None /\ pending_pieces' # pending_pieces)
        => /\ LET pos == pos_of(pending_pieces, last'.ret[1])
              IN pos # 0 => ~pending_pieces[pos].blocks[(last'.ret[2] \div BLOCK_SIZE) + 1]
           /\ \A u \in UpToTimeoutAfter(clock') :
                  \A shuffled \in shuffles(missing_pieces') :
                      get_next_request(pending_pieces', shuffled, u).ret # last'.ret]_vars

\* The (index, begin) of the blocks of the torrent
Blocks ==
    {<<i, b * BLOCK_SIZE>> : i \in Pieces, b \in 0..(CeilDiv(piece_length, BLOCK_SIZE) - 1)}

\* Session 1 has closed while its remote side held the request for block x,
\* the block is still unreceived in its piece record, and its requested-at is
\* older than REQUEST_TIMEOUT
LostRequest(x) ==
    /\ sessions[1].pc = "returned"
    /\ InSeq(x, sessions[1].requests)
    /\ LET pos == pos_of(pending_pieces, x[1])
       IN /\ pos # 0
          /\ <<pos, x[2] \div BLOCK_SIZE>> \in TimedOutBlocks

\* Every request an answering session is sent gets its answer: again and again
\* the remote sides of the answering sessions hold no request
EveryRequestAnswered == []<>(\A s \in Answering : sessions[s].requests = <<>>)

\* The event loop runs every session: no _send_requests call stays suspended
\* in request_piece for ever
EverySessionRuns ==
    \A s \in RecoverySessions : []<>(sessions[s].pc \notin {"send_first", "send"})

(***************************************************************************)
(* C25.  As claimed: if a session was handed a block by get_next_request   *)
(* and then closes without delivering it, then, once the request has timed *)
(* out, the block is eventually returned again by get_next_request to      *)
(* another session, which then holds the request, provided another session *)
(* stays connected, unchoked and answers every request it is sent.         *)
(***************************************************************************)
C25_Original ==
    (EverySessionRuns /\ EveryRequestAnswered) =>
        \A x \in Blocks :
            LostRequest(x) ~> (\E s \in Answering : InSeq(x, sessions[s].requests))

\* The get_peers queries that have been sent and whose coroutine has not ended
InFlight == {q \in 1..Len(dht.tasks) : dht.tasks[q].state = "waiting"}

(***************************************************************************)
(* C28.  During one lookup get_peers is given to sendto at most once per   *)
(* address, also when the address is queued several times or named by      *)
(* several responses, and at most CONCURRENT_REQUESTS queries are in       *)
(* flight at any time.                                                     *)
(***************************************************************************)
C28_OncePerAddress ==
    /\ \A address \in Addresses : dht.sent[address] <= 1
    /\ Cardinality(InFlight) <= CONCURRENT_REQUESTS

\* CONCURRENT_REQUESTS queries are in flight, and the address of one of them
\* is still waiting in the queue
C28_Witness ==
    /\ Cardinality(InFlight) = CONCURRENT_REQUESTS
    /\ \E q \in InFlight : /\ InSeq(dht.tasks[q].address, dht.nodes_to_query)
                           /\ dht.sent[dht.tasks[q].address] = 1

(***************************************************************************)
(* C29.  The lookup terminates: whatever the responses name and whichever  *)
(* queries are answered, fail or time out, find_peers_for_infohash         *)
(* eventually returns, with the work queue empty.                          *)
(***************************************************************************)
C29_Terminates == <>(dht.pc = "returned" /\ dht.nodes_to_query = <<>>)

\* The lookup has returned after it queried every address, found a peer and
\* had a query time out
C29_Witness ==
    /\ dht.pc = "returned"
    /\ dht.queried_nodes = Addresses
    /\ dht.found_peers # {}
    /\ dht.timed_out

(***************************************************************************)
(* C30.  As claimed: two queries that are outstanding at the same time     *)
(* have different transaction ids, and every outstanding query whose       *)
(* future is not done is the one registered in pending_requests under its  *)
(* transaction id.                                                         *)
(***************************************************************************)
C30_Original ==
    /\ \A p \in InFlight, q \in InFlight : p # q => dht.tasks[p].tid # dht.tasks[q].tid
    /\ \A q \in InFlight :
          dht.tasks[q].future = "pending" => dht.pending_requests[dht.tasks[q].tid] = q

====
